---------------------------- MODULE Spec2Model ----------------------------
(***************************************************************************)
(* PM Agent: the pipeline / park state machine of james-axis/PM_agent.     *)
(*                                                                         *)
(* The model covers the six pending dicts (pm1..pm6), the park store       *)
(* (marker comment on the Jira issue + parked.json index in the GitHub     *)
(* repo), the resume reconstruction and the external systems the handlers  *)
(* write to.  Every external call can fail the way the code handles it     *)
(* (non-2xx status or exception).                                          *)
(*                                                                         *)
(* Text is modelled as a sequence of one-character strings; the atoms      *)
(* "M" (the literal PM_AGENT_PARKED), the stage tags and the JSON braces   *)
(* stand for multi-character substrings that contain no '*', no blank and  *)
(* no ':'.                                                                 *)
(***************************************************************************)
EXTENDS Integers, Sequences, FiniteSets, TLC

\* ------------------------------------------------------------------ bounds
MaxIssues == 1    \* Jira ideas that process_idea may create
MaxMsg == 2       \* Telegram message ids handed out to previews
MaxPages == 1     \* Confluence PRD pages that process_prd may create
MaxEpics == 1     \* epics that approve_epic may create
MaxTasks == 1     \* tasks in a generated breakdown
MaxContent == 2   \* distinct generated document bodies
NoteCap == 2      \* plain comments counted per issue and kind (2 = two or more)
MaxLines == 2     \* lines of a markdown document handed to the converters
MaxBatch == 3     \* tasks of a breakdown approve_task_breakdown walks through
MaxSprints == 3   \* sprints get_future_sprints returns
MaxSprintNum == 3 \* largest N of a roadmap value "Month (SN)"

\* ------------------------------------------------------------------ text

Chars == {"a", " ", "*"}

\* free text an AI generation returns (titles, summaries): one plain, one
\* with an emphasised word
Titles == {<<"a">>, <<"a", " ", "*", "a", "*">>}

PARK_MARKER == "M"

Stages == {"pm1", "pm2", "pm3", "pm4", "pm5", "pm6"}

\* text[i:j] of Python (0-based, half-open, clipped)
Slice(text, i, j) ==
  LET lo == IF i < 0 THEN 0 ELSE i
      hi == IF j > Len(text) THEN Len(text) ELSE j
  IN IF hi <= lo THEN << >> ELSE SubSeq(text, lo + 1, hi)

\* text.find(pat, start) of Python: lowest 0-based index >= start, or -1
Find(text, pat, start) ==
  LET hits == {i \in start .. (Len(text) - Len(pat)) :
                 Slice(text, i, i + Len(pat)) = pat}
  IN IF hits = {} THEN -1 ELSE CHOOSE i \in hits : \A j \in hits : i <= j

\* str.strip() is non-empty
HasNonBlank(text) == \E i \in 1 .. Len(text) : text[i] # " "

RECURSIVE Concat(_)
Concat(ss) == IF ss = << >> THEN << >> ELSE Head(ss) \o Concat(Tail(ss))

Plain(t) == [text |-> t, strong |-> FALSE]
Strong(t) == [text |-> t, strong |-> TRUE]

\* first loop of _parse_inline_markdown: collect the bold nodes
RECURSIVE ScanInline(_, _, _)
ScanInline(text, i, nodes) ==
  IF i >= Len(text) THEN nodes
  ELSE
    LET dbl == Slice(text, i, i + 2) = <<"*", "*">>
        endD == Find(text, <<"*", "*">>, i + 2)
        pre == IF nodes = << >> /\ i > 0 THEN <<Plain(Slice(text, 0, i))>> ELSE << >>
        innerD == Slice(text, i + 2, endD)
        prevOk == i = 0 \/ text[i] \in {" ", "("}
        sgl == text[i + 1] = "*" /\ prevOk /\ ~dbl
        endS == Find(text, <<"*">>, i + 1)
        innerS == Slice(text, i + 1, endS)
    IN IF dbl /\ endD # -1
       THEN ScanInline(text, endD + 2,
              nodes \o pre \o (IF HasNonBlank(innerD) THEN <<Strong(innerD)>> ELSE << >>))
       ELSE IF sgl /\ endS # -1 /\ endS > i + 1
                /\ ((\A k \in 1 .. Len(innerS) : innerS[k] # " ") \/ Len(innerS) < 80)
       THEN ScanInline(text, endS + 1, nodes \o pre \o <<Strong(innerS)>>)
       ELSE ScanInline(text, i + 1, nodes)

\* second loop of _parse_inline_markdown: rebuild with the gaps between nodes
RECURSIVE RebuildInline(_, _, _, _)
RebuildInline(text, nodes, pos, result) ==
  IF nodes = << >>
  THEN [pos |-> pos, result |-> result]
  ELSE
    LET node == Head(nodes)
        nt == node.text
        bd == Find(text, <<"*", "*">> \o nt \o <<"*", "*">>, pos)
        bs == Find(text, <<"*">> \o nt \o <<"*">>, pos)
        gap(at) == IF at > pos THEN <<Plain(Slice(text, pos, at))>> ELSE << >>
    IN IF ~node.strong
       THEN RebuildInline(text, Tail(nodes), pos, Append(result, node))
       ELSE IF bd # -1 /\ (bs = -1 \/ bd <= bs)
       THEN RebuildInline(text, Tail(nodes), bd + Len(nt) + 4,
                          result \o gap(bd) \o <<node>>)
       ELSE IF bs # -1
       THEN RebuildInline(text, Tail(nodes), bs + Len(nt) + 2,
                          result \o gap(bs) \o <<node>>)
       ELSE RebuildInline(text, Tail(nodes), pos, Append(result, node))

\* jira_client._parse_inline_markdown: text -> ADF text nodes
parse_inline_markdown(text) ==
  IF text = << >> THEN <<Plain(<<" ">>)>>
  ELSE
    LET nodes == ScanInline(text, 0, << >>)
    IN IF nodes = << >> THEN <<Plain(text)>>
       ELSE
         LET rb == RebuildInline(text, nodes, 0, << >>)
             remaining == Slice(text, rb.pos, Len(text))
             result == IF rb.pos < Len(text) /\ HasNonBlank(remaining)
                       THEN Append(rb.result, Plain(remaining))
                       ELSE rb.result
         IN IF result # << >> THEN result ELSE <<Plain(text)>>

\* jira_client._extract_adf_text over the text nodes of one paragraph
extract_adf_text(nodes) == Concat([k \in 1 .. Len(nodes) |-> nodes[k].text])


\* ------------------------------------------------------------------ values
Keys == 1 .. MaxIssues
MsgIds == 1 .. MaxMsg
PageIds == 1 .. MaxPages
EpicIds == 1 .. MaxEpics

\* prototype_url as the handlers pass it on: "" (none yet), "N/A" or the
\* GitHub Pages URL of <issue_key>.html
Protos == {"none", "NA", "url"}

\* the minimal data a marker comment carries (store_data_for_stage); a field
\* a stage does not persist keeps its default
NoData == [page |-> 0, proto |-> "none", epic |-> 0, tasks |-> 0, text |-> << >>]

\* a document body: the markdown/HTML a generation returned ("md"), the plain
\* text fetch_page_content extracts from the stored page ("text", with the
\* prototype section when the page carries one), or empty
NoBody == [form |-> "none", c |-> 0, link |-> FALSE]
Md(c) == [form |-> "md", c |-> c, link |-> FALSE]

EmptyDict == [k \in {} |-> "pm1"]
DictSet(d, k, v) == [j \in (DOMAIN d) \cup {k} |-> IF j = k THEN v ELSE d[j]]
DictDel(d, k) == [j \in (DOMAIN d) \ {k} |-> d[j]]

\* ------------------------------------------------------------------ park store
\* json.dumps(data or {}, separators=(",", ":")): ids and URLs are atoms, the
\* free text (titles, summaries, task texts) is spelled out
JsonDumps(data) ==
  <<"{", ToString(data.page), data.proto, ToString(data.epic), ToString(data.tasks)>>
    \o data.text \o <<"}">>

\* json.loads(payload): the record, or a JSONDecodeError
JsonLoads(p) ==
  IF /\ Len(p) >= 6
     /\ p[1] = "{" /\ p[Len(p)] = "}"
     /\ \E n \in 0 .. MaxPages : ToString(n) = p[2]
     /\ p[3] \in Protos
     /\ \E n \in 0 .. MaxEpics : ToString(n) = p[4]
     /\ \E n \in 0 .. MaxTasks : ToString(n) = p[5]
     /\ \A i \in 6 .. (Len(p) - 1) : p[i] \in Chars
  THEN [ok |-> TRUE,
        data |-> [page |-> CHOOSE n \in 0 .. MaxPages : ToString(n) = p[2],
                  proto |-> p[3],
                  epic |-> CHOOSE n \in 0 .. MaxEpics : ToString(n) = p[4],
                  tasks |-> CHOOSE n \in 0 .. MaxTasks : ToString(n) = p[5],
                  text |-> Slice(p, 5, Len(p) - 1)]]
  ELSE [ok |-> FALSE, data |-> NoData]

\* comment_text of park_item
MarkerText(stage, data) == <<PARK_MARKER, ":", stage, ":">> \o JsonDumps(data)

\* ------------------------------------------------------------------ markdown
Digits == {"0", "1", "2", "3", "4", "5", "6", "7", "8", "9"}

NL == "\n"

\* the backquote character
BQ == "bq"

\* str.strip() / str.lstrip() on a line
RECURSIVE LStrip(_)
LStrip(text) ==
  IF text # << >> /\ Head(text) = " " THEN LStrip(Tail(text)) ELSE text

RECURSIVE RStrip(_)
RStrip(text) ==
  IF text # << >> /\ text[Len(text)] = " "
  THEN RStrip(SubSeq(text, 1, Len(text) - 1)) ELSE text

Strip(text) == RStrip(LStrip(text))

\* str.startswith / str.endswith
StartsWith(text, pat) == Slice(text, 0, Len(pat)) = pat
EndsWith(text, pat) == Len(text) >= Len(pat) /\ Slice(text, Len(text) - Len(pat), Len(text)) = pat

\* str.split(sep) for a one-character separator
RECURSIVE SplitBy(_, _)
SplitBy(text, sep) ==
  LET at == Find(text, <<sep>>, 0)
  IN IF at = -1 THEN <<text>>
     ELSE <<Slice(text, 0, at)>> \o SplitBy(Slice(text, at + 1, Len(text)), sep)

\* sep.join(parts)
RECURSIVE Join(_, _)
Join(parts, sep) ==
  IF parts = << >> THEN << >>
  ELSE IF Len(parts) = 1 THEN parts[1]
  ELSE parts[1] \o sep \o Join(Tail(parts), sep)

\* "len(stripped) > 2 and stripped[0].isdigit() and '. ' in stripped[:5]"
IsNumbered(stripped) ==
  /\ Len(stripped) > 2
  /\ stripped[1] \in Digits
  /\ Find(Slice(stripped, 0, 5), <<".", " ">>, 0) # -1

\* "stripped.startswith('- ') or (stripped.startswith('* ') and not
\* stripped.startswith('**'))"
IsBulletLine(stripped) ==
  \/ StartsWith(stripped, <<"-", " ">>)
  \/ StartsWith(stripped, <<"*", " ">>) /\ ~StartsWith(stripped, <<"*", "*">>)

\* ADF block nodes: a heading or paragraph carries its inline nodes in
\* content, a list carries one inline-node sequence per listItem in items
Block(type, level, content) ==
  [type |-> type, level |-> level, content |-> content, items |-> << >>]
ListOf(type, item) ==
  [type |-> type, level |-> 0, content |-> << >>, items |-> <<item>>]

EmptyDoc == <<Block("paragraph", 0, <<Plain(<<" ">>)>>)>>

\* the list branches of markdown_to_adf: append to the list the previous
\* line opened, or open a new one
AddItem(nodes, type, item) ==
  IF nodes # << >> /\ nodes[Len(nodes)].type = type
  THEN [nodes EXCEPT ![Len(nodes)].items = Append(@, item)]
  ELSE Append(nodes, ListOf(type, item))

\* the branch of the loop of markdown_to_adf a stripped line takes: the node
\* type, the heading level and the length of the prefix cut off the text
LineKind(stripped) ==
  IF StartsWith(stripped, <<"#", "#", "#", " ">>)
  THEN [type |-> "heading", level |-> 3, skip |-> 4]
  ELSE IF StartsWith(stripped, <<"#", "#", " ">>)
  THEN [type |-> "heading", level |-> 2, skip |-> 3]
  ELSE IF StartsWith(stripped, <<"#", " ">>)
  THEN [type |-> "heading", level |-> 1, skip |-> 2]
  ELSE IF IsBulletLine(stripped)
  THEN [type |-> "bulletList", level |-> 0, skip |-> 2]
  ELSE IF IsNumbered(stripped)
  THEN [type |-> "orderedList", level |-> 0, skip |-> Find(stripped, <<".", " ">>, 0) + 2]
  ELSE [type |-> "paragraph", level |-> 0, skip |-> 0]

\* the node a line adds to the document
AdfAdd(nodes, kind, content) ==
  IF kind.type \in {"bulletList", "orderedList"}
  THEN AddItem(nodes, kind.type, content)
  ELSE Append(nodes, Block(kind.type, kind.level, content))

\* one round of the loop of markdown_to_adf for a line that is not blank:
\* the text after the prefix goes through _parse_inline_markdown
AdfLine(nodes, stripped, kind) ==
  AdfAdd(nodes, kind, parse_inline_markdown(Slice(stripped, kind.skip, Len(stripped))))

\* the loop of markdown_to_adf over the stripped lines of md_text.split("\n")
RECURSIVE AdfLines(_, _)
AdfLines(lines, nodes) ==
  IF lines = << >> THEN nodes
  ELSE IF Head(lines) = << >> THEN AdfLines(Tail(lines), nodes)
  ELSE AdfLines(Tail(lines), AdfLine(nodes, Head(lines), LineKind(Head(lines))))

\* "stripped = line.strip()" for every line
StripAll(lines) == [k \in 1 .. Len(lines) |-> Strip(lines[k])]

\* what markdown_to_adf returns for the nodes its loop collected
OrEmptyDoc(nodes) == IF nodes = << >> THEN EmptyDoc ELSE nodes

\* jira_client.markdown_to_adf: markdown text -> ADF content nodes
markdown_to_adf(md_text) ==
  IF md_text = << >> THEN EmptyDoc
  ELSE OrEmptyDoc(AdfLines(StripAll(SplitBy(md_text, NL)), << >>))

\* the inline-code substitution of _inline_md_to_wiki: a backquoted run of
\* non-backquote characters is wrapped in {{ }}
RECURSIVE SubCode(_)
SubCode(text) ==
  LET starts == {i \in 0 .. Len(text) - 1 :
                   /\ text[i + 1] = BQ
                   /\ Find(text, <<BQ>>, i + 1) >= i + 2}
  IN IF starts = {} THEN text
     ELSE LET i == CHOOSE s \in starts : \A t \in starts : s <= t
              j == Find(text, <<BQ>>, i + 1)
          IN Slice(text, 0, i) \o <<"{", "{">> \o Slice(text, i + 1, j) \o <<"}", "}">>
               \o SubCode(Slice(text, j + 1, Len(text)))

\* re.sub(r'\*\*(.+?)\*\*', r'*\1*', text)
RECURSIVE SubBold(_)
SubBold(text) ==
  LET starts == {i \in 0 .. Len(text) - 1 :
                   /\ Slice(text, i, i + 2) = <<"*", "*">>
                   /\ Find(text, <<"*", "*">>, i + 3) # -1}
  IN IF starts = {} THEN text
     ELSE LET i == CHOOSE s \in starts : \A t \in starts : s <= t
              j == Find(text, <<"*", "*">>, i + 3)
          IN Slice(text, 0, i) \o <<"*">> \o Slice(text, i + 2, j) \o <<"*">>
               \o SubBold(Slice(text, j + 2, Len(text)))

\* the match of r'\[([^\]]+)\]\(([^)]+)\)' that starts at i, if any
LinkAt(text, i) ==
  LET k == Find(text, <<"]">>, i + 1)
      p == Find(text, <<")">>, k + 2)
  IN [ok |-> /\ text[i + 1] = "["
             /\ k >= i + 2
             /\ Slice(text, k + 1, k + 2) = <<"(">>
             /\ p >= k + 3,
      k |-> k, p |-> p]

\* re.sub(r'\[([^\]]+)\]\(([^)]+)\)', r'[\1|\2]', text)
RECURSIVE SubLink(_)
SubLink(text) ==
  LET starts == {i \in 0 .. Len(text) - 1 : LinkAt(text, i).ok}
  IN IF starts = {} THEN text
     ELSE LET i == CHOOSE s \in starts : \A t \in starts : s <= t
              m == LinkAt(text, i)
          IN Slice(text, 0, i) \o <<"[">> \o Slice(text, i + 1, m.k) \o <<"|">>
               \o Slice(text, m.k + 2, m.p) \o <<"]">>
               \o SubLink(Slice(text, m.p + 1, Len(text)))

\* confluence_client._inline_md_to_wiki
inline_md_to_wiki(text) ==
  IF text = << >> THEN << >> ELSE SubLink(SubBold(SubCode(text)))

\* "h<n>. " of the wiki dialect
WikiHeading(n) == <<"h", ToString(n), ".", " ">>

Hashes(n) == [k \in 1 .. n |-> "#"]

\* the heading branches of markdown_to_wiki, tried from ###### down to "# ":
\* the level the line is given, 0 when it is no heading
WikiLevel(stripped) ==
  LET hits == {n \in 2 .. 6 : StartsWith(stripped, Hashes(n))}
  IN IF hits # {} THEN CHOOSE n \in hits : \A h \in hits : h <= n
     ELSE IF StartsWith(stripped, <<"#", " ">>) THEN 1 ELSE 0

\* "all(c in '|-: ' for c in stripped)"
IsSeparatorRow(stripped) ==
  \A k \in 1 .. Len(stripped) : stripped[k] \in {"|", "-", ":", " "}

\* "[c.strip() for c in stripped.split('|')[1:-1]]", each through
\* _inline_md_to_wiki
WikiCells(stripped) ==
  LET parts == SplitBy(stripped, "|")
  IN [k \in 1 .. Len(parts) - 2 |-> inline_md_to_wiki(Strip(parts[k + 1]))]

\* the loop of markdown_to_wiki over md_text.split("\n")
RECURSIVE WikiLines(_, _, _, _)
WikiLines(lines, wiki_lines, in_code_block, in_table) ==
  IF lines = << >> THEN wiki_lines
  ELSE
    LET line == Head(lines)
        rest == Tail(lines)
        stripped == Strip(line)
        from(n) == Slice(stripped, n, Len(stripped))
        lang == Strip(from(3))
        level == WikiLevel(stripped)
        out(l, t) == WikiLines(rest, Append(wiki_lines, l), FALSE, t)
    IN IF StartsWith(stripped, <<BQ, BQ, BQ>>)
       THEN IF in_code_block
            THEN WikiLines(rest, Append(wiki_lines, <<"{code}">>), FALSE, in_table)
            ELSE WikiLines(rest,
                   Append(wiki_lines,
                          <<"{code">> \o (IF lang # << >> THEN <<":language=">> \o lang ELSE << >>)
                            \o <<"}">>),
                   TRUE, in_table)
       ELSE IF in_code_block
       THEN WikiLines(rest, Append(wiki_lines, line), TRUE, in_table)
       ELSE IF stripped = << >>
       THEN out(<< >>, FALSE)
       ELSE IF level >= 2
       THEN out(WikiHeading(level) \o inline_md_to_wiki(Strip(from(level))), in_table)
       ELSE IF level = 1
       THEN out(WikiHeading(1) \o inline_md_to_wiki(Strip(from(2))), in_table)
       ELSE IF StartsWith(stripped, <<"|">>) /\ EndsWith(stripped, <<"|">>)
       THEN IF IsSeparatorRow(stripped)
            THEN WikiLines(rest, wiki_lines, FALSE, in_table)
            ELSE IF ~in_table
            THEN out(<<"|", "|", " ">> \o Join(WikiCells(stripped), <<" ", "|", "|", " ">>)
                       \o <<" ", "|", "|">>, TRUE)
            ELSE out(<<"|", " ">> \o Join(WikiCells(stripped), <<" ", "|", " ">>)
                       \o <<" ", "|">>, TRUE)
       ELSE IF IsBulletLine(stripped)
       THEN out(<<"*", " ">> \o inline_md_to_wiki(from(2)), FALSE)
       ELSE IF IsNumbered(stripped)
       THEN out(<<"#", " ">> \o inline_md_to_wiki(from(Find(stripped, <<".", " ">>, 0) + 2)), FALSE)
       ELSE IF stripped \in {<<"-", "-", "-">>, <<"*", "*", "*">>, <<"_", "_", "_">>}
       THEN out(<<"-", "-", "-", "-">>, FALSE)
       ELSE out(inline_md_to_wiki(stripped), FALSE)

\* confluence_client.markdown_to_wiki: markdown text -> wiki markup text
markdown_to_wiki(md_text) ==
  IF md_text = << >> THEN << >>
  ELSE Join(WikiLines(SplitBy(md_text, NL), << >>, FALSE, FALSE), <<NL>>)

\* the comment text get_issue_comments returns for a comment add_comment wrote
StoredCommentText(comment_md) ==
  extract_adf_text(markdown_to_adf(comment_md)[1].content)

\* "_, stage, payload = c['text'].split(':', 2); data = json.loads(payload)"
\* of list_parked and unpark_item; ok is FALSE where the code catches
\* ValueError / JSONDecodeError
ParseMarker(text) ==
  LET c1 == Find(text, <<":">>, 0)
      c2 == IF c1 = -1 THEN -1 ELSE Find(text, <<":">>, c1 + 1)
      st == Slice(text, c1 + 1, c2)
      js == JsonLoads(Slice(text, c2 + 1, Len(text)))
  IN IF c2 = -1 \/ ~js.ok
     THEN [ok |-> FALSE, stage |-> "?", data |-> NoData]
     ELSE [ok |-> TRUE, stage |-> IF Len(st) = 1 THEN st[1] ELSE "?", data |-> js.data]

StartsWithMarker(text) == Len(text) >= 1 /\ text[1] = PARK_MARKER

\* position of the first comment the loops of list_parked / unpark_item
\* accept (marker prefix and parseable), or 0
FirstMarker(cs) ==
  LET hits == {i \in 1 .. Len(cs) : StartsWithMarker(cs[i]) /\ ParseMarker(cs[i]).ok}
  IN IF hits = {} THEN 0 ELSE CHOOSE i \in hits : \A j \in hits : i <= j

RemoveAt(s, i) == [j \in 1 .. (Len(s) - 1) |-> IF j < i THEN s[j] ELSE s[j + 1]]

\* _read_parked_json: (dict, sha) or ({}, None); sha is modelled by whether
\* one was returned
read_parked_json(idx, ok) ==
  IF ok /\ idx.exists THEN [dict |-> idx.map, sha |-> TRUE]
  ELSE [dict |-> EmptyDict, sha |-> FALSE]

\* _write_parked_json: the contents API accepts a PUT with the current sha of
\* an existing file, or without sha when the file does not exist yet
write_parked_json(idx, dict, sha, ok) ==
  IF ok /\ (sha = idx.exists)
  THEN [ok |-> TRUE, idx |-> [exists |-> TRUE, map |-> dict]]
  ELSE [ok |-> FALSE, idx |-> idx]

\* park_item(issue_key, stage, data); net names the calls that succeed
park_item(cm, idx, issue_key, stage, data, net) ==
  IF ~net.comment
  THEN [ret |-> FALSE, cm |-> cm, idx |-> idx]
  ELSE
    LET cm2 == [cm EXCEPT ![issue_key] = Append(@, StoredCommentText(MarkerText(stage, data)))]
        rd == read_parked_json(idx, net.read)
        wr == write_parked_json(idx, DictSet(rd.dict, issue_key, stage), rd.sha, net.write)
    IN [ret |-> TRUE, cm |-> cm2, idx |-> wr.idx]

\* list_parked without its clean-up of stale keys; the pruning property must
\* tell it from list_parked
list_parked_keep(cm, idx, net) ==
  LET rd == read_parked_json(idx, net.read)
      keys == DOMAIN rd.dict
      seen(k) == IF net.comments[k] THEN cm[k] ELSE << >>
      found(k) == net.issue[k] /\ FirstMarker(seen(k)) # 0
      item(k) == LET m == ParseMarker(seen(k)[FirstMarker(seen(k))])
                 IN [issue_key |-> k, stage |-> m.stage, data |-> m.data]
  IN [items |-> {item(k) : k \in {j \in keys : found(j)}},
      stale |-> {k \in keys : ~found(k)},
      idx |-> idx]

\* a list that scans every issue for a marker comment instead of reading the
\* keys from the index; the race property must tell it from list_parked
list_parked_scan(cm, idx, net) ==
  LET keys == DOMAIN cm
      found(k) == FirstMarker(cm[k]) # 0
      item(k) == LET m == ParseMarker(cm[k][FirstMarker(cm[k])])
                 IN [issue_key |-> k, stage |-> m.stage, data |-> m.data]
  IN [items |-> {item(k) : k \in {j \in keys : found(j)}},
      stale |-> {},
      idx |-> idx]

\* list_parked(); net.read / net.write are the index calls, net.issue[k] and
\* net.comments[k] the Jira reads for key k.  The items are returned as a set.
list_parked(cm, idx, net) ==
  LET rd == read_parked_json(idx, net.read)
      keys == DOMAIN rd.dict
      seen(k) == IF net.comments[k] THEN cm[k] ELSE << >>
      found(k) == net.issue[k] /\ FirstMarker(seen(k)) # 0
      item(k) == LET m == ParseMarker(seen(k)[FirstMarker(seen(k))])
                 IN [issue_key |-> k, stage |-> m.stage, data |-> m.data]
      stale == {k \in keys : ~found(k)}
      rd2 == read_parked_json(idx, net.read2)
      clean == [k \in (DOMAIN rd2.dict) \ stale |-> rd2.dict[k]]
      wr == write_parked_json(idx, clean, rd2.sha, net.write)
  IN [items |-> {item(k) : k \in {j \in keys : found(j)}},
      stale |-> stale,
      idx |-> IF stale = {} THEN idx ELSE wr.idx]

\* an unpark that reports an item for every key, an idea at pm1 when the
\* issue carries no marker comment; the resume property must tell it from
\* unpark_item
unpark_item_found(cm, idx, issue_key, net) ==
  LET seen == IF net.comments THEN cm[issue_key] ELSE << >>
      at == FirstMarker(seen)
      m == ParseMarker(seen[at])
  IN [found |-> TRUE,
      stage |-> IF at # 0 THEN m.stage ELSE "pm1",
      data |-> IF at # 0 THEN m.data ELSE NoData,
      cm |-> IF at # 0 /\ net.delete
             THEN [cm EXCEPT ![issue_key] = RemoveAt(@, at)] ELSE cm,
      idx |-> idx]

\* unpark_item(issue_key)
unpark_item(cm, idx, issue_key, net) ==
  LET seen == IF net.comments THEN cm[issue_key] ELSE << >>
      at == FirstMarker(seen)
      m == ParseMarker(seen[at])
      cm2 == IF at # 0 /\ net.delete
             THEN [cm EXCEPT ![issue_key] = RemoveAt(@, at)] ELSE cm
      rd == read_parked_json(idx, net.read)
      wr == write_parked_json(idx, DictDel(rd.dict, issue_key), rd.sha, net.write)
  IN [found |-> at # 0,
      stage |-> IF at # 0 THEN m.stage ELSE "?",
      data |-> IF at # 0 THEN m.data ELSE NoData,
      cm |-> cm2,
      idx |-> IF issue_key \in DOMAIN rd.dict THEN wr.idx ELSE idx]

\* ------------------------------------------------------------------ state
VARIABLES
  pending,        \* pending_ideas .. pending_engineer_reviews: stage -> dict
  user_state,     \* user_state[chat_id] of the one chat
  sent,           \* previews sent: message id m carries the buttons of sent[m]
  issues,         \* Jira ideas: key k is issues[k]
  markers,        \* per issue, the comments that start with the park marker
  notes,          \* per issue and kind, the other comments (counted)
  parkedJson,     \* parked.json in the prototypes repo
  pages,          \* Confluence PRD pages: page id p is pages[p]
  files,          \* prototype files in the repo: file name -> content (0: none)
  epics,          \* epics created: epic e was created from idea epics[e]
  tasks,          \* per epic, tasks created (counted)
  resumeButtons,  \* keys a /pending list offered a Resume button for
  parking,        \* per handler thread, the park_item call it is inside
  boot,           \* the process: its environment and how far main has come
  conv,           \* a markdown document handed to the converters, and their outputs
  job,            \* the approve_task_breakdown or sprint scheduling call that is running
  parkOf,         \* per key, the stage and data of the last successful park_item
  done,           \* per preview, the terminal actions that took effect
  last            \* what the last handler run did and returned

vars == <<pending, user_state, sent, issues, markers, notes, parkedJson, pages,
          files, epics, tasks, resumeButtons, parking, boot, conv, job,
          parkOf, done, last>>

chatVars == <<pending, user_state, sent>>
jiraVars == <<issues, markers, notes, epics, tasks>>
storeVars == <<markers, parkedJson>>
docVars == <<pages, files>>
histVars == <<resumeButtons, parkOf, done>>
auxVars == <<parking, boot, conv, job>>

NoteKinds == {"pm1_approved", "pm1_rejected", "prd_created", "prd_approved",
              "proto_needed", "proto_skipped", "proto_published",
              "proto_approved", "epic_created", "tasks_created"}

FileName(k) == [key |-> k, lower |-> FALSE]       \* f"{issue_key}.html"
LowerName(k) == [key |-> k, lower |-> TRUE]       \* f"{issue_key.lower()}.html"
FileNames == {FileName(k) : k \in Keys} \cup {LowerName(k) : k \in Keys}

Idle == [mode |-> "idle", preview_message_id |-> 0]

\* ctx: the entry carries the context texts (kb_context_text,
\* design_system_text, db_schema_text) its process_* gathered;
\* reconstruct_pending leaves them empty
NoEntry == [issue_key |-> 0, text |-> << >>, page |-> 0, body |-> NoBody,
            proto |-> "none", epic |-> 0, tasks |-> 0, ctx |-> FALSE]

\* op: the operation; msg/key/stage: what it was called on; found: the entry
\* (or parked record) it looked up was there; netOk: every external call it
\* made succeeded; ret/rdata/items/stale: what the park store returned (ret:
\* park_item's result or whether unpark_item found the item, rdata: the
\* payload unpark_item returned, items: the <<key, stage>> pairs list_parked
\* returned, stale: its stale_keys); next: the stage whose process operation
\* it started; newmsg: the message id it installed an entry under (0: none);
\* ctx: the ctx of the entry it held; told: it sent the user the "already
\* processed or expired" message
NoLast == [op |-> "init", stage |-> "none", msg |-> 0, key |-> 0,
           found |-> FALSE, netOk |-> TRUE, ret |-> FALSE, rdata |-> NoData,
           items |-> {}, stale |-> {}, next |-> "none", newmsg |-> 0,
           ctx |-> FALSE, told |-> FALSE]

\* what a handler records when the entry it looks up is not there and it
\* answers "already processed or expired"
Stale(op, stage, m) ==
  [NoLast EXCEPT !.op = op, !.stage = stage, !.msg = m, !.told = TRUE]

\* what a handler records when the entry it looks up is not there and it
\* returns without a message
Silent(op, stage, m) == [NoLast EXCEPT !.op = op, !.stage = stage, !.msg = m]

\* what a handler records once it holds the entry e of preview m
Held(op, stage, m, e) ==
  [NoLast EXCEPT !.op = op, !.stage = stage, !.msg = m, !.key = e.issue_key,
                 !.found = TRUE, !.ctx = e.ctx]

Started(op, stage, k) == [NoLast EXCEPT !.op = op, !.stage = stage, !.key = k]

\* ok: every call of that park_item succeeded
\* the handler threads of the bot (telebot's worker pool)
Threads == {"t1", "t2"}

\* a park_item call in progress: pc is the place the thread has reached
\* ("idle": not inside a call; "commented": the marker comment is written;
\* "read": _read_parked_json has returned parked and sha), msg/key/stage the
\* preview and item being parked, data its minimal fields, dict/sha what
\* _read_parked_json returned, ok whether every call so far succeeded
NoCall == [pc |-> "idle", msg |-> 0, key |-> 0, stage |-> "none", data |-> NoData,
           dict |-> EmptyDict, sha |-> FALSE, ok |-> TRUE]

\* the environment variables main.preflight_check requires
Required == {"JIRA_EMAIL", "JIRA_API_TOKEN", "ANTHROPIC_API_KEY", "TELEGRAM_BOT_TOKEN"}

\* os.getenv of a variable: None when it is unset, "" when it is set to the
\* empty string, a value otherwise
EnvValues == {"unset", "empty", "value"}

\* the process inside infinity_polling with every required variable set;
\* status is the exit status (-1: the process has not exited)
Booted == [env |-> [v \in Required |-> "value"], pc |-> "polling", status |-> -1]

\* no document is being converted
NoConv == [x |-> << >>, adf |-> << >>, wiki |-> << >>, pc |-> "none"]

\* no approve_task_breakdown or process_sprint_scheduling call is running
NoJob == [op |-> "none"]

NoPark == [stage |-> "none", data |-> NoData, ok |-> FALSE]

\* a second spelling of the file name; the prototype-file property must tell
\* it from changes_filename
changes_filename_lower(k) == LowerName(k)

\* the file names process_prototype and apply_prototype_changes push to
prototype_filename(k) == FileName(k)
changes_filename(k) == FileName(k)

\* an update that files the regenerated idea as a new issue; the one-issue
\* property must tell it from update_idea
update_idea_as_new(iss, k, title) ==
  Append(iss, [summary |-> title, wontdo |-> FALSE, idea |-> iss[k].idea,
               edited |-> TRUE])

\* jira_client.update_idea as apply_idea_changes calls it: the existing
\* issue gets the regenerated fields (edited: it has been rewritten)
update_idea(iss, k, title) ==
  [iss EXCEPT ![k].summary = title, ![k].edited = TRUE]

Min(a, b) == IF a < b THEN a ELSE b

Init ==
  /\ pending = [s \in Stages |-> << >>]
  /\ user_state = Idle
  /\ sent = << >>
  /\ issues = << >>
  /\ markers = [k \in Keys |-> << >>]
  /\ notes = [k \in Keys |-> [n \in NoteKinds |-> 0]]
  /\ parkedJson = [exists |-> FALSE, map |-> EmptyDict]
  /\ pages = << >>
  /\ files = [f \in FileNames |-> 0]
  /\ epics = << >>
  /\ tasks = [e \in EpicIds |-> 0]
  /\ resumeButtons = {}
  /\ parking = [t \in Threads |-> NoCall]
  /\ boot = Booted
  /\ conv = NoConv
  /\ job = NoJob
  /\ parkOf = [k \in Keys |-> NoPark]
  /\ done = [m \in MsgIds |-> {}]
  /\ last = NoLast

\* ------------------------------------------------------------------ helpers
Has(d, m) == m \in DOMAIN d
\* an install under the id of the chat's first message instead of the id of
\* the preview just sent; the keying property must tell it from Put
Put_first(d, m, e) == [j \in (DOMAIN d) \cup {1} |-> IF j = 1 THEN e ELSE d[j]]

Put(d, m, e) == [j \in (DOMAIN d) \cup {m} |-> IF j = m THEN e ELSE d[j]]

\* a removal that leaves the entry in the dict; the park-store exclusion
\* property must tell it from Pop
Pop_keep(d, m) == d

Pop(d, m) == [j \in (DOMAIN d) \ {m} |-> d[j]]

\* an add_comment that posts the comment twice; the reject property must
\* tell it from add_comment
add_comment_twice(nt, k, kind, ok) ==
  IF ok THEN [nt EXCEPT ![k][kind] = Min(@ + 2, NoteCap)] ELSE nt

\* jira_client.add_comment of a plain comment; ok is the call's outcome
add_comment(nt, k, kind, ok) ==
  IF ok THEN [nt EXCEPT ![k][kind] = Min(@ + 1, NoteCap)] ELSE nt

\* a send_*_preview that succeeded returns the message with the next id
NextMsg == Len(sent) + 1

\* a fetch that answers with the content the pipeline wrote last instead of
\* the content the page has now; the resume property must tell it from
\* fetch_page_content
fetch_page_content_gen(pg, p, ok) ==
  IF ok /\ p \in DOMAIN pg /\ pg[p].alive
  THEN [form |-> "text", c |-> pg[p].gen, link |-> pg[p].link] ELSE NoBody

\* confluence_client.fetch_page_content(page_id): the text extracted from the
\* stored page (adf_to_text), or None
fetch_page_content(pg, p, ok) ==
  IF ok /\ p \in DOMAIN pg /\ pg[p].alive
  THEN [form |-> "text", c |-> pg[p].c, link |-> pg[p].link] ELSE NoBody

\* a push that reports success without writing the file; the process
\* property must tell it from push_prototype
push_prototype_skip(fs, name, c, ok) == fs

\* github_client.push_prototype(filename, html): whole-file overwrite
push_prototype(fs, name, c, ok) == IF ok THEN [fs EXCEPT ![name] = c] ELSE fs

\* github_client.fetch_prototype_html(issue_key)
fetch_prototype_html(fs, k, ok) ==
  IF ok /\ fs[LowerName(k)] # 0 THEN Md(fs[LowerName(k)]) ELSE NoBody

\* pending_store.store_data_for_stage(stage, pending)
store_data_for_stage(stage, p) ==
  CASE stage = "pm1" -> NoData
    [] stage = "pm2" -> [NoData EXCEPT !.page = p.page, !.text = p.text]
    [] stage = "pm3" -> [NoData EXCEPT !.proto = p.proto, !.page = p.page]
    [] stage = "pm4" -> [NoData EXCEPT !.text = p.text, !.page = p.page, !.proto = p.proto]
    [] stage \in {"pm5", "pm6"} ->
         [NoData EXCEPT !.epic = p.epic, !.text = p.text, !.tasks = p.tasks,
                        !.page = p.page, !.proto = p.proto]
    [] OTHER -> NoData

\* pending_store.reconstruct_pending(stage, issue_key, summary, stored_data,
\* chat_id); prd and html are the live fetches the builder performs
reconstruct_pending(stage, k, summary, d, prd, html) ==
  CASE stage = "pm1" -> [NoEntry EXCEPT !.issue_key = k, !.text = summary]
    [] stage = "pm2" ->
         [NoEntry EXCEPT !.issue_key = k, !.page = d.page, !.text = d.text,
                         !.body = IF d.page # 0 THEN prd ELSE NoBody]
    [] stage = "pm3" ->
         [NoEntry EXCEPT !.issue_key = k, !.proto = d.proto, !.page = d.page,
                         !.body = IF d.proto # "none" THEN html ELSE NoBody]
    [] stage = "pm4" ->
         [NoEntry EXCEPT !.issue_key = k, !.text = d.text, !.page = d.page,
                         !.proto = d.proto]
    [] stage \in {"pm5", "pm6"} ->
         [NoEntry EXCEPT !.issue_key = k, !.epic = d.epic, !.text = d.text,
                         !.tasks = d.tasks, !.page = d.page, !.proto = d.proto]
    [] OTHER -> [NoEntry EXCEPT !.issue_key = k, !.text = d.text, !.page = d.page,
                                !.proto = d.proto, !.epic = d.epic, !.tasks = d.tasks]

\* ------------------------------------------------------------------ PM1
\* pm1_idea_intake.process_idea(raw_idea, chat_id, bot); fail is the step
\* that failed: KB fetch, enrichment, Jira creation, the preview, or none
process_idea ==
  \E fail \in {"kb", "enrich", "create", "preview", "none"}, title \in Titles :
    LET k == Len(issues) + 1
        entry == [NoEntry EXCEPT !.issue_key = k, !.text = title, !.ctx = TRUE]
    IN IF fail \in {"kb", "enrich", "create"}
       THEN /\ last' = [NoLast EXCEPT !.op = "process", !.stage = "pm1", !.netOk = (fail = "none")]
            /\ UNCHANGED <<pending, sent, issues>>
       ELSE /\ Len(issues) < MaxIssues
            /\ issues' = Append(issues, [summary |-> title, wontdo |-> FALSE, idea |-> k,
                                     edited |-> FALSE])
            /\ IF fail = "preview"
               THEN /\ UNCHANGED <<pending, sent>>
                    /\ last' = [NoLast EXCEPT !.op = "process", !.stage = "pm1",
                                  !.key = k, !.netOk = (fail = "none")]
               ELSE /\ Len(sent) < MaxMsg
                    /\ sent' = Append(sent, "pm1")
                    /\ pending' = [pending EXCEPT !.pm1 = Put(@, NextMsg, entry)]
                    /\ last' = [NoLast EXCEPT !.op = "process", !.stage = "pm1",
                                  !.key = k, !.newmsg = NextMsg]

\* telegram_bot.handle_idea: "/idea <text>"
handle_idea ==
  /\ user_state' = Idle
  /\ process_idea
  /\ UNCHANGED <<markers, notes, parkedJson, pages, files, epics, tasks, histVars>>
  /\ UNCHANGED auxVars

\* telegram_bot.handle_idea: "/idea" with no text
handle_idea_prompt ==
  /\ user_state' = [mode |-> "awaiting_idea", preview_message_id |-> 0]
  /\ last' = [NoLast EXCEPT !.op = "prompt"]
  /\ UNCHANGED <<pending, sent, jiraVars, parkedJson, docVars, histVars>>
  /\ UNCHANGED auxVars

\* telegram_bot.handle_text in mode awaiting_idea, and its default branch
handle_text_idea ==
  /\ user_state.mode \in {"idle", "awaiting_idea"}
  /\ user_state' = Idle
  /\ process_idea
  /\ UNCHANGED <<markers, notes, parkedJson, pages, files, epics, tasks, histVars>>
  /\ UNCHANGED auxVars

\* pm1_idea_intake.approve_idea(message_id, bot) through handle_pm1_callback
approve_idea(m) ==
  /\ m \in 1 .. Len(sent) /\ sent[m] = "pm1"
  /\ IF ~Has(pending.pm1, m)
     THEN /\ last' = Stale("approve", "pm1", m)
          /\ UNCHANGED <<pending, notes, done>>
     ELSE \E ok \in BOOLEAN :
            LET e == pending.pm1[m]
            IN /\ pending' = [pending EXCEPT !.pm1 = Pop(@, m)]
               /\ notes' = add_comment(notes, e.issue_key, "pm1_approved", ok)
               /\ done' = [done EXCEPT ![m] = @ \cup {"approve"}]
               /\ last' = [NoLast EXCEPT !.op = "approve", !.stage = "pm1", !.msg = m,
                             !.key = e.issue_key, !.found = TRUE,
                             !.netOk = ok]
  /\ UNCHANGED <<user_state, sent, issues, markers, epics, tasks, parkedJson,
                 docVars, resumeButtons, parkOf>>
  /\ UNCHANGED auxVars

\* pm1_idea_intake.reject_idea(message_id) through handle_pm1_callback
reject_idea(m) ==
  /\ m \in 1 .. Len(sent) /\ sent[m] = "pm1"
  /\ IF ~Has(pending.pm1, m)
     THEN /\ last' = Stale("reject", "pm1", m)
          /\ UNCHANGED <<pending, issues, notes, done>>
     ELSE \E put \in BOOLEAN, ok \in BOOLEAN :
            LET e == pending.pm1[m]
            IN /\ pending' = [pending EXCEPT !.pm1 = Pop(@, m)]
               /\ issues' = IF put THEN [issues EXCEPT ![e.issue_key].wontdo = TRUE]
                            ELSE issues
               /\ notes' = add_comment(notes, e.issue_key, "pm1_rejected", ok)
               /\ done' = [done EXCEPT ![m] = @ \cup {"reject"}]
               /\ last' = [NoLast EXCEPT !.op = "reject", !.stage = "pm1", !.msg = m,
                             !.key = e.issue_key, !.found = TRUE,
                             !.netOk = (put /\ ok)]
  /\ UNCHANGED <<user_state, sent, markers, epics, tasks, parkedJson, docVars,
                 resumeButtons, parkOf>>
  /\ UNCHANGED auxVars

\* pm1_idea_intake.apply_idea_changes(message_id, change_instructions, bot)
\* through handle_text in mode awaiting_changes
apply_idea_changes ==
  /\ user_state.mode = "awaiting_changes"
  /\ user_state' = Idle
  /\ LET m == user_state.preview_message_id
     IN IF ~Has(pending.pm1, m)
        THEN /\ last' = Silent("changes", "pm1", m)
             /\ UNCHANGED <<pending, sent, issues>>
        ELSE \E fail \in {"regen", "update", "preview", "none"}, title \in Titles :
               LET e == pending.pm1[m]
                   entry == [e EXCEPT !.text = title]
                   base == [NoLast EXCEPT !.op = "changes", !.stage = "pm1", !.msg = m,
                              !.key = e.issue_key, !.found = TRUE, !.netOk = (fail = "none")]
               IN IF fail \in {"regen", "update"}
                  THEN /\ last' = base
                       /\ UNCHANGED <<pending, sent, issues>>
                  ELSE /\ issues' = update_idea(issues, e.issue_key, title)
                       /\ IF fail = "preview"
                          THEN /\ pending' = [pending EXCEPT !.pm1 = Pop(@, m)]
                               /\ sent' = sent
                               /\ last' = base
                          ELSE /\ Len(sent) < MaxMsg
                               /\ sent' = Append(sent, "pm1")
                               /\ pending' = [pending EXCEPT
                                                !.pm1 = Put(Pop(@, m), NextMsg, entry)]
                               /\ last' = [base EXCEPT !.newmsg = NextMsg]
  /\ UNCHANGED <<markers, notes, epics, tasks, parkedJson, docVars, histVars>>
  /\ UNCHANGED auxVars

\* ------------------------------------------------------------------ shared
\* the mode handle_pmN_callback sets when start_*_changes succeeded
ChangeMode(stage) ==
  CASE stage = "pm1" -> "awaiting_changes"
    [] stage = "pm2" -> "awaiting_prd_changes"
    [] stage = "pm3" -> "awaiting_prototype_changes"
    [] stage = "pm4" -> "awaiting_epic_changes"
    [] stage = "pm5" -> "awaiting_task_changes"
    [] OTHER -> "awaiting_engineer_changes"

\* a Changes tap that records the first preview of the chat instead of the
\* tapped one; the reply property must tell it from start_changes
start_changes_first(m) ==
  /\ m \in 1 .. Len(sent)
  /\ LET stage == sent[m]
     IN /\ user_state' = IF Has(pending[stage], m)
                         THEN [mode |-> ChangeMode(stage), preview_message_id |-> 1]
                         ELSE user_state
        /\ last' = IF Has(pending[stage], m)
                   THEN [NoLast EXCEPT !.op = "start_changes", !.stage = stage,
                                       !.msg = m, !.found = TRUE]
                   ELSE Stale("start_changes", stage, m)
  /\ UNCHANGED <<pending, sent, jiraVars, parkedJson, docVars, histVars>>
  /\ UNCHANGED auxVars

\* the pmN_changes branch of handle_pmN_callback with start_*_changes
start_changes(m) ==
  /\ m \in 1 .. Len(sent)
  /\ LET stage == sent[m]
     IN /\ user_state' = IF Has(pending[stage], m)
                         THEN [mode |-> ChangeMode(stage), preview_message_id |-> m]
                         ELSE user_state
        /\ last' = IF Has(pending[stage], m)
                   THEN [NoLast EXCEPT !.op = "start_changes", !.stage = stage,
                                       !.msg = m, !.found = TRUE]
                   ELSE Stale("start_changes", stage, m)
  /\ UNCHANGED <<pending, sent, jiraVars, parkedJson, docVars, histVars>>
  /\ UNCHANGED auxVars

\* the pmN_park branch of handle_pmN_callback
park(m) ==
  /\ m \in 1 .. Len(sent)
  /\ LET stage == sent[m]
     IN IF ~Has(pending[stage], m)
        THEN /\ last' = Silent("park", stage, m)
             /\ UNCHANGED <<pending, markers, parkedJson, parkOf, done>>
        ELSE \E net \in [comment : BOOLEAN, read : BOOLEAN, write : BOOLEAN] :
               LET e == pending[stage][m]
                   data == store_data_for_stage(stage, e)
                   r == park_item(markers, parkedJson, e.issue_key, stage, data, net)
               IN /\ pending' = [pending EXCEPT ![stage] = Pop(@, m)]
                  /\ markers' = r.cm
                  /\ parkedJson' = r.idx
                  /\ parkOf' = IF r.ret
                               THEN [parkOf EXCEPT ![e.issue_key] =
                                       [stage |-> stage, data |-> data,
                                        ok |-> net.comment /\ net.read /\ net.write]]
                               ELSE parkOf
                  /\ done' = [done EXCEPT ![m] = @ \cup {"park"}]
                  /\ last' = [NoLast EXCEPT !.op = "park", !.stage = stage, !.msg = m,
                                !.key = e.issue_key, !.found = TRUE, !.ret = r.ret,
                                !.netOk = (net.comment /\ net.read /\ net.write)]
  /\ UNCHANGED <<user_state, sent, issues, notes, epics, tasks, docVars, resumeButtons>>
  /\ UNCHANGED auxVars

\* The pmN_park branch run by handler thread t, one external call at a time.
\* park_begin: the handler pops the entry and park_item calls add_comment;
\* when the call fails park_item returns False.
park_begin(t, m) ==
  /\ parking[t].pc = "idle"
  /\ m \in 1 .. Len(sent) /\ Has(pending[sent[m]], m)
  /\ \E ok \in BOOLEAN :
       LET stage == sent[m]
           e == pending[stage][m]
           data == store_data_for_stage(stage, e)
       IN /\ pending' = [pending EXCEPT ![stage] = Pop(@, m)]
          /\ done' = [done EXCEPT ![m] = @ \cup {"park"}]
          /\ IF ok
             THEN /\ markers' = [markers EXCEPT ![e.issue_key] =
                                   Append(@, StoredCommentText(MarkerText(stage, data)))]
                  /\ parking' = [parking EXCEPT ![t] =
                                   [NoCall EXCEPT !.pc = "commented", !.msg = m,
                                      !.key = e.issue_key, !.stage = stage,
                                      !.data = data]]
                  /\ UNCHANGED last
             ELSE /\ UNCHANGED <<markers, parking>>
                  /\ last' = [NoLast EXCEPT !.op = "park", !.stage = stage, !.msg = m,
                                !.key = e.issue_key, !.found = TRUE, !.netOk = FALSE]
  /\ UNCHANGED <<user_state, sent, issues, notes, epics, tasks, parkedJson, docVars,
                 resumeButtons, parkOf, boot, conv, job>>

\* park_read: "parked, sha = _read_parked_json()"
park_read(t) ==
  /\ parking[t].pc = "commented"
  /\ \E ok \in BOOLEAN :
       LET rd == read_parked_json(parkedJson, ok)
       IN parking' = [parking EXCEPT ![t] =
                        [@ EXCEPT !.pc = "read", !.dict = rd.dict, !.sha = rd.sha,
                                  !.ok = ok]]
  /\ UNCHANGED <<chatVars, jiraVars, parkedJson, docVars, histVars, last, boot, conv, job>>

\* park_write: "parked[issue_key] = stage; _write_parked_json(parked, sha)";
\* the sha names the content that was read, and the contents API answers an
\* update whose sha is not that of the file's present content with an error
\* status, which _write_parked_json turns into False and park_item ignores
park_write(t) ==
  /\ parking[t].pc = "read"
  /\ \E ok \in BOOLEAN :
       LET c == parking[t]
           fresh == c.sha => (c.dict = parkedJson.map)
           wr == write_parked_json(parkedJson, DictSet(c.dict, c.key, c.stage),
                                   c.sha, ok /\ fresh)
       IN /\ parkedJson' = wr.idx
          /\ parkOf' = [parkOf EXCEPT ![c.key] =
                          [stage |-> c.stage, data |-> c.data, ok |-> c.ok /\ ok]]
          /\ last' = [NoLast EXCEPT !.op = "park", !.stage = c.stage, !.msg = c.msg,
                        !.key = c.key, !.found = TRUE, !.ret = TRUE,
                        !.netOk = (c.ok /\ ok)]
  /\ parking' = [parking EXCEPT ![t] = NoCall]
  /\ UNCHANGED <<chatVars, jiraVars, docVars, resumeButtons, done, boot, conv, job>>

\* the outcomes of the external calls list_parked makes
ListNets ==
  [read : BOOLEAN, read2 : BOOLEAN, write : BOOLEAN,
   issue : [DOMAIN parkedJson.map -> BOOLEAN],
   comments : [DOMAIN parkedJson.map -> BOOLEAN]]

ListNetOk(net) ==
  /\ net.read /\ net.read2 /\ net.write
  /\ \A k \in DOMAIN net.issue : net.issue[k] /\ net.comments[k]

\* telegram_bot.handle_pending: /pending
handle_pending ==
  /\ \E o \in {[r |-> list_parked(markers, parkedJson, net), ok |-> ListNetOk(net)] :
                 net \in ListNets} :
       /\ parkedJson' = o.r.idx
       /\ resumeButtons' = resumeButtons \cup {it.issue_key : it \in o.r.items}
       /\ last' = [NoLast EXCEPT !.op = "list", !.netOk = o.ok, !.stale = o.r.stale,
                     !.items = {<<it.issue_key, it.stage>> : it \in o.r.items}]
  /\ UNCHANGED <<chatVars, jiraVars, docVars, parkOf, done>>
  /\ UNCHANGED auxVars

\* the text get_issue falls back to when the issue cannot be read
KeyText(k) == <<ToString(k)>>

\* telegram_bot.handle_resume_callback for the button resume_<issue_key>
handle_resume_callback(k) ==
  /\ k \in resumeButtons
  /\ \E u \in {[un |-> unpark_item(markers, parkedJson, k, net),
                ok |-> net.comments /\ net.delete /\ net.read /\ net.write] :
                 net \in [comments : BOOLEAN, delete : BOOLEAN,
                          read : BOOLEAN, write : BOOLEAN]} :
       LET un == u.un
           base == [NoLast EXCEPT !.op = "resume", !.key = k, !.found = un.found,
                      !.ret = un.found, !.rdata = un.data]
       IN /\ markers' = un.cm
          /\ parkedJson' = un.idx
          /\ parkOf' = [parkOf EXCEPT ![k] = NoPark]
          /\ IF ~un.found \/ un.stage \notin Stages
             THEN /\ UNCHANGED <<pending, sent>>
                  /\ last' = [base EXCEPT !.netOk = u.ok,
                                !.stage = IF un.found THEN un.stage ELSE "none"]
             ELSE \E o \in {[entry |-> reconstruct_pending(un.stage, k,
                                         IF l.issue THEN issues[k].summary ELSE KeyText(k),
                                         un.data,
                                         fetch_page_content(pages, un.data.page, l.prd),
                                         fetch_prototype_html(files, k, l.html)),
                             send |-> l.send,
                             ok |-> u.ok /\ l.issue /\ l.prd /\ l.html /\ l.send] :
                              l \in [issue : BOOLEAN, prd : BOOLEAN,
                                     html : BOOLEAN, send : BOOLEAN]} :
                    IF o.send
                    THEN /\ Len(sent) < MaxMsg
                         /\ sent' = Append(sent, un.stage)
                         /\ pending' = [pending EXCEPT
                                          ![un.stage] = Put(@, NextMsg, o.entry)]
                         /\ last' = [base EXCEPT !.stage = un.stage,
                                       !.newmsg = NextMsg, !.netOk = o.ok]
                    ELSE /\ UNCHANGED <<pending, sent>>
                         /\ last' = [base EXCEPT !.stage = un.stage, !.netOk = FALSE]
  /\ UNCHANGED <<user_state, issues, notes, epics, tasks, docVars, resumeButtons, done>>
  /\ UNCHANGED auxVars

\* the process is restarted: the module-level dicts start empty again
restart ==
  /\ pending' = [s \in Stages |-> << >>]
  /\ user_state' = Idle
  /\ last' = [NoLast EXCEPT !.op = "restart"]
  /\ parking' = [t \in Threads |-> NoCall]
  /\ UNCHANGED <<sent, jiraVars, parkedJson, docVars, histVars, boot, conv, job>>

\* somebody deletes a marker comment in Jira
delete_marker_by_hand(k) ==
  /\ markers[k] # << >>
  /\ \E i \in 1 .. Len(markers[k]) :
       markers' = [markers EXCEPT ![k] = RemoveAt(@, i)]
  /\ parkOf' = [parkOf EXCEPT ![k] = NoPark]
  /\ last' = [NoLast EXCEPT !.op = "external", !.key = k]
  /\ UNCHANGED <<chatVars, issues, notes, epics, tasks, parkedJson, docVars,
                 resumeButtons, done>>
  /\ UNCHANGED auxVars

\* a stage tag none of the branches of handle_resume_callback and
\* reconstruct_pending knows
FOREIGN_STAGE == "pm7"

\* another writer of the park store (a later version of the agent) parks
\* issue k under a stage tag this version does not know
foreign_park(k) ==
  /\ k \in 1 .. Len(issues) /\ markers[k] = << >>
  /\ markers' = [markers EXCEPT ![k] = <<MarkerText(FOREIGN_STAGE, NoData)>>]
  /\ parkedJson' = [exists |-> TRUE,
                    map |-> DictSet(parkedJson.map, k, FOREIGN_STAGE)]
  /\ parkOf' = [parkOf EXCEPT ![k] = NoPark]
  /\ last' = [NoLast EXCEPT !.op = "external", !.key = k]
  /\ UNCHANGED <<chatVars, issues, notes, epics, tasks, docVars, resumeButtons, done>>
  /\ UNCHANGED auxVars

\* ------------------------------------------------------------------ PM2
\* pm2_prd.process_prd(issue_key, summary, chat_id, bot)
process_prd(k) ==
  /\ k \in 1 .. Len(issues)
  /\ \E fail \in {"issue", "kb", "generate", "page", "preview", "none"},
        c \in 1 .. MaxContent, ok \in BOOLEAN :
       LET p == Len(pages) + 1
           entry == [NoEntry EXCEPT !.issue_key = k, !.text = issues[k].summary,
                                    !.page = p, !.body = Md(c), !.ctx = TRUE]
       IN IF fail \in {"issue", "kb", "generate", "page"}
          THEN /\ last' = [Started("process", "pm2", k) EXCEPT !.netOk = FALSE]
               /\ UNCHANGED <<pending, sent, pages, notes>>
          ELSE /\ Len(pages) < MaxPages
               /\ pages' = Append(pages, [alive |-> TRUE, c |-> c, gen |-> c, link |-> FALSE,
                                       key |-> k])
               /\ notes' = add_comment(notes, k, "prd_created", ok)
               /\ IF fail = "preview"
                  THEN /\ UNCHANGED <<pending, sent>>
                       /\ last' = [Started("process", "pm2", k) EXCEPT !.netOk = FALSE]
                  ELSE /\ Len(sent) < MaxMsg
                       /\ sent' = Append(sent, "pm2")
                       /\ pending' = [pending EXCEPT !.pm2 = Put(@, NextMsg, entry)]
                       /\ last' = [Started("process", "pm2", k) EXCEPT
                                     !.newmsg = NextMsg, !.netOk = ok]
  /\ UNCHANGED <<user_state, issues, markers, epics, tasks, parkedJson, files, histVars>>
  /\ UNCHANGED auxVars

\* pm2_prd.approve_prd(message_id, bot) through handle_pm2_callback
approve_prd(m) ==
  /\ m \in 1 .. Len(sent) /\ sent[m] = "pm2"
  /\ IF ~Has(pending.pm2, m)
     THEN /\ last' = Stale("approve", "pm2", m)
          /\ UNCHANGED <<notes, done>>
     ELSE \E ok \in BOOLEAN :
            LET e == pending.pm2[m]
            IN /\ notes' = add_comment(notes, e.issue_key, "prd_approved", ok)
               /\ done' = [done EXCEPT ![m] = @ \cup {"approve"}]
               /\ last' = [Held("approve", "pm2", m, e) EXCEPT
                             !.netOk = ok]
  /\ UNCHANGED <<chatVars, issues, markers, epics, tasks, parkedJson, docVars,
                 resumeButtons, parkOf>>
  /\ UNCHANGED auxVars

\* handle_pm2_callback for the buttons pm2_proto_yes / pm2_proto_no of the
\* prompt approve_prd sent: no branch of the handler matches
proto_decision ==
  /\ \E m \in 1 .. Len(sent) : sent[m] = "pm2" /\ "approve" \in done[m]
  /\ last' = [NoLast EXCEPT !.op = "proto_decision", !.stage = "pm2"]
  /\ UNCHANGED <<chatVars, jiraVars, parkedJson, docVars, histVars>>
  /\ UNCHANGED auxVars

\* pm2_prd.reject_prd(message_id) through handle_pm2_callback
reject_prd(m) ==
  /\ m \in 1 .. Len(sent) /\ sent[m] = "pm2"
  /\ IF ~Has(pending.pm2, m)
     THEN /\ last' = Stale("reject", "pm2", m)
          /\ UNCHANGED <<pending, pages, done>>
     ELSE \E ok \in BOOLEAN :
            LET e == pending.pm2[m]
                del == ok /\ pages[e.page].alive
            IN /\ pending' = [pending EXCEPT !.pm2 = Pop(@, m)]
               /\ pages' = IF del THEN [pages EXCEPT ![e.page].alive = FALSE] ELSE pages
               /\ done' = [done EXCEPT ![m] = @ \cup {"reject"}]
               /\ last' = [Held("reject", "pm2", m, e) EXCEPT
                             !.netOk = del]
  /\ UNCHANGED <<user_state, sent, jiraVars, parkedJson, files, resumeButtons, parkOf>>
  /\ UNCHANGED auxVars

\* pm2_prd.apply_prd_changes(message_id, change_instructions, bot) through
\* handle_text in mode awaiting_prd_changes
apply_prd_changes ==
  /\ user_state.mode = "awaiting_prd_changes"
  /\ user_state' = Idle
  /\ LET m == user_state.preview_message_id
     IN IF ~Has(pending.pm2, m)
        THEN /\ last' = Silent("changes", "pm2", m)
             /\ UNCHANGED <<pending, sent, pages>>
        ELSE \E fail \in {"regen", "update", "preview", "none"}, c \in 1 .. MaxContent :
               LET e == pending.pm2[m]
                   entry == [e EXCEPT !.body = Md(c)]
                   base == [Held("changes", "pm2", m, e) EXCEPT !.netOk = (fail = "none")]
               IN IF fail \in {"regen", "update"}
                  THEN /\ last' = base
                       /\ UNCHANGED <<pending, sent, pages>>
                  ELSE /\ pages[e.page].alive
                       /\ pages' = [pages EXCEPT ![e.page].c = c, ![e.page].gen = c,
                                                 ![e.page].link = FALSE]
                       /\ IF fail = "preview"
                          THEN /\ pending' = [pending EXCEPT !.pm2 = Pop(@, m)]
                               /\ sent' = sent
                               /\ last' = base
                          ELSE /\ Len(sent) < MaxMsg
                               /\ sent' = Append(sent, "pm2")
                               /\ pending' = [pending EXCEPT
                                                !.pm2 = Put(Pop(@, m), NextMsg, entry)]
                               /\ last' = [base EXCEPT !.newmsg = NextMsg]
  /\ UNCHANGED <<jiraVars, parkedJson, files, histVars>>
  /\ UNCHANGED auxVars

\* ------------------------------------------------------------------ PM3
\* pm3_prototype.process_prototype(issue_key, summary, prd_page_id,
\* prd_web_url, chat_id, bot), with _append_prototype_link_to_prd
process_prototype(k, p) ==
  /\ k \in 1 .. Len(issues) /\ p \in 1 .. Len(pages) /\ pages[p].key = k
  /\ \E fail \in {"prd", "generate", "push", "preview", "none"},
        c \in 1 .. MaxContent, ok \in BOOLEAN, linkOk \in BOOLEAN :
       LET entry == [NoEntry EXCEPT !.issue_key = k, !.text = issues[k].summary,
                                    !.page = p, !.proto = "url", !.body = Md(c),
                                    !.ctx = TRUE]
       IN IF fail \in {"prd", "generate", "push"}
          THEN /\ last' = [Started("process", "pm3", k) EXCEPT !.netOk = FALSE]
               /\ UNCHANGED <<pending, sent, pages, files, notes>>
          ELSE /\ pages[p].alive
               /\ files' = push_prototype(files, prototype_filename(k), c, TRUE)
               /\ notes' = add_comment(notes, k, "proto_published", ok)
               /\ pages' = IF linkOk THEN [pages EXCEPT ![p].link = TRUE] ELSE pages
               /\ IF fail = "preview"
                  THEN /\ UNCHANGED <<pending, sent>>
                       /\ last' = [Started("process", "pm3", k) EXCEPT !.netOk = FALSE]
                  ELSE /\ Len(sent) < MaxMsg
                       /\ sent' = Append(sent, "pm3")
                       /\ pending' = [pending EXCEPT !.pm3 = Put(@, NextMsg, entry)]
                       /\ last' = [Started("process", "pm3", k) EXCEPT
                                     !.newmsg = NextMsg, !.netOk = (ok /\ linkOk)]
  /\ UNCHANGED <<user_state, issues, markers, epics, tasks, parkedJson, histVars>>
  /\ UNCHANGED auxVars

\* pm3_prototype.approve_prototype(message_id, bot) through handle_pm3_callback
approve_prototype(m) ==
  /\ m \in 1 .. Len(sent) /\ sent[m] = "pm3"
  /\ IF ~Has(pending.pm3, m)
     THEN /\ last' = Stale("approve", "pm3", m)
          /\ UNCHANGED <<pending, notes, done>>
     ELSE \E ok \in BOOLEAN :
            LET e == pending.pm3[m]
            IN /\ pending' = [pending EXCEPT !.pm3 = Pop(@, m)]
               /\ notes' = add_comment(notes, e.issue_key, "proto_approved", ok)
               /\ done' = [done EXCEPT ![m] = @ \cup {"approve"}]
               /\ last' = [Held("approve", "pm3", m, e) EXCEPT
                             !.netOk = ok]
  /\ UNCHANGED <<user_state, sent, issues, markers, epics, tasks, parkedJson,
                 docVars, resumeButtons, parkOf>>
  /\ UNCHANGED auxVars

\* pm3_prototype.reject_prototype(message_id) through handle_pm3_callback
reject_prototype(m) ==
  /\ m \in 1 .. Len(sent) /\ sent[m] = "pm3"
  /\ IF ~Has(pending.pm3, m)
     THEN /\ last' = Stale("reject", "pm3", m)
          /\ UNCHANGED <<pending, done>>
     ELSE /\ pending' = [pending EXCEPT !.pm3 = Pop(@, m)]
          /\ done' = [done EXCEPT ![m] = @ \cup {"reject"}]
          /\ last' = Held("reject", "pm3", m, pending.pm3[m])
  /\ UNCHANGED <<user_state, sent, jiraVars, parkedJson, docVars, resumeButtons, parkOf>>
  /\ UNCHANGED auxVars

\* pm3_prototype.apply_prototype_changes(message_id, change_instructions, bot)
\* through handle_text in mode awaiting_prototype_changes
apply_prototype_changes ==
  /\ user_state.mode = "awaiting_prototype_changes"
  /\ user_state' = Idle
  /\ LET m == user_state.preview_message_id
     IN IF ~Has(pending.pm3, m)
        THEN /\ last' = Silent("changes", "pm3", m)
             /\ UNCHANGED <<pending, sent, files>>
        ELSE \E fail \in {"regen", "push", "preview", "none"}, c \in 1 .. MaxContent :
               LET e == pending.pm3[m]
                   entry == [e EXCEPT !.body = Md(c), !.proto = "url"]
                   base == [Held("changes", "pm3", m, e) EXCEPT !.netOk = (fail = "none")]
               IN IF fail \in {"regen", "push"}
                  THEN /\ last' = base
                       /\ UNCHANGED <<pending, sent, files>>
                  ELSE /\ files' = push_prototype(files, changes_filename(e.issue_key), c, TRUE)
                       /\ IF fail = "preview"
                          THEN /\ pending' = [pending EXCEPT !.pm3 = Pop(@, m)]
                               /\ sent' = sent
                               /\ last' = base
                          ELSE /\ Len(sent) < MaxMsg
                               /\ sent' = Append(sent, "pm3")
                               /\ pending' = [pending EXCEPT
                                                !.pm3 = Put(Pop(@, m), NextMsg, entry)]
                               /\ last' = [base EXCEPT !.newmsg = NextMsg]
  /\ UNCHANGED <<jiraVars, parkedJson, pages, histVars>>
  /\ UNCHANGED auxVars

\* ------------------------------------------------------------------ PM4
\* pm4_epic.process_epic(issue_key, summary, prd_page_id, prd_web_url,
\* prototype_url, chat_id, bot)
process_epic(k, p) ==
  /\ k \in 1 .. Len(issues) /\ p \in 1 .. Len(pages) /\ pages[p].key = k
  /\ \E fail \in {"prd", "generate", "preview", "none"}, title \in Titles :
       LET proto == IF files[FileName(k)] # 0 THEN "url" ELSE "NA"
           entry == [NoEntry EXCEPT !.issue_key = k, !.text = title, !.page = p,
                                    !.proto = proto, !.ctx = TRUE]
       IN IF fail \in {"prd", "generate", "preview"}
          THEN /\ last' = [Started("process", "pm4", k) EXCEPT !.netOk = (fail = "none")]
               /\ UNCHANGED <<pending, sent>>
          ELSE /\ pages[p].alive
               /\ Len(sent) < MaxMsg
               /\ sent' = Append(sent, "pm4")
               /\ pending' = [pending EXCEPT !.pm4 = Put(@, NextMsg, entry)]
               /\ last' = [Started("process", "pm4", k) EXCEPT !.newmsg = NextMsg]
  /\ UNCHANGED <<user_state, jiraVars, parkedJson, docVars, histVars>>
  /\ UNCHANGED auxVars

\* pm4_epic.approve_epic(message_id, bot) through handle_pm4_callback
approve_epic(m) ==
  /\ m \in 1 .. Len(sent) /\ sent[m] = "pm4"
  /\ IF ~Has(pending.pm4, m)
     THEN /\ last' = Stale("approve", "pm4", m)
          /\ UNCHANGED <<pending, epics, notes, done>>
     ELSE \E created \in BOOLEAN, ok \in BOOLEAN, ok2 \in BOOLEAN :
            LET e == pending.pm4[m]
            IN /\ pending' = [pending EXCEPT !.pm4 = Pop(@, m)]
               /\ done' = [done EXCEPT ![m] = @ \cup {"approve"}]
               /\ IF ~created
                  THEN /\ UNCHANGED <<epics, notes>>
                       /\ last' = [Held("approve", "pm4", m, e) EXCEPT
                                     !.netOk = FALSE]
                  ELSE /\ Len(epics) < MaxEpics
                       /\ epics' = Append(epics, [key |-> e.issue_key, page |-> e.page,
                                                  proto |-> e.proto, title |-> e.text])
                       /\ notes' = add_comment(notes, e.issue_key, "epic_created", ok)
                       /\ last' = [Held("approve", "pm4", m, e) EXCEPT
                                     !.netOk = (ok /\ ok2)]
  /\ UNCHANGED <<user_state, sent, issues, markers, tasks, parkedJson, docVars,
                 resumeButtons, parkOf>>
  /\ UNCHANGED auxVars

\* pm4_epic.reject_epic(message_id) through handle_pm4_callback
reject_epic(m) ==
  /\ m \in 1 .. Len(sent) /\ sent[m] = "pm4"
  /\ IF ~Has(pending.pm4, m)
     THEN /\ last' = Stale("reject", "pm4", m)
          /\ UNCHANGED <<pending, done>>
     ELSE /\ pending' = [pending EXCEPT !.pm4 = Pop(@, m)]
          /\ done' = [done EXCEPT ![m] = @ \cup {"reject"}]
          /\ last' = Held("reject", "pm4", m, pending.pm4[m])
  /\ UNCHANGED <<user_state, sent, jiraVars, parkedJson, docVars, resumeButtons, parkOf>>
  /\ UNCHANGED auxVars

\* pm4_epic.apply_epic_changes(message_id, change_text, chat_id, bot) through
\* handle_text in mode awaiting_epic_changes
apply_epic_changes ==
  /\ user_state.mode = "awaiting_epic_changes"
  /\ user_state' = Idle
  /\ LET m == user_state.preview_message_id
     IN IF ~Has(pending.pm4, m)
        THEN /\ last' = Stale("changes", "pm4", m)
             /\ UNCHANGED <<pending, sent>>
        ELSE \E fail \in {"regen", "preview", "none"}, title \in Titles :
               LET e == pending.pm4[m]
                   entry == [e EXCEPT !.text = title]
                   base == [Held("changes", "pm4", m, e) EXCEPT !.netOk = (fail = "none")]
               IN CASE fail = "regen" ->
                         /\ last' = base
                         /\ UNCHANGED <<pending, sent>>
                    [] fail = "preview" ->
                         /\ pending' = [pending EXCEPT !.pm4 = Pop(@, m)]
                         /\ sent' = sent
                         /\ last' = base
                    [] OTHER ->
                         /\ Len(sent) < MaxMsg
                         /\ sent' = Append(sent, "pm4")
                         /\ pending' = [pending EXCEPT
                                          !.pm4 = Put(Pop(@, m), NextMsg, entry)]
                         /\ last' = [base EXCEPT !.newmsg = NextMsg]
  /\ UNCHANGED <<jiraVars, parkedJson, docVars, histVars>>
  /\ UNCHANGED auxVars

\* ------------------------------------------------------------------ PM5
\* pm5_tasks.process_task_breakdown(epic_key, epic_title, source_idea_key,
\* prd_page_id, prd_web_url, prototype_url, chat_id, bot)
process_task_breakdown(ep) ==
  /\ ep \in 1 .. Len(epics)
  /\ \E fail \in {"prd", "generate", "preview", "none"}, n \in 1 .. MaxTasks :
       LET x == epics[ep]
           entry == [NoEntry EXCEPT !.issue_key = x.key, !.text = x.title,
                                    !.epic = ep, !.tasks = n, !.page = x.page,
                                    !.proto = x.proto, !.ctx = TRUE]
       IN IF fail \in {"prd", "generate", "preview"}
          THEN /\ last' = [Started("process", "pm5", x.key) EXCEPT !.netOk = (fail = "none")]
               /\ UNCHANGED <<pending, sent>>
          ELSE /\ pages[x.page].alive
               /\ Len(sent) < MaxMsg
               /\ sent' = Append(sent, "pm5")
               /\ pending' = [pending EXCEPT !.pm5 = Put(@, NextMsg, entry)]
               /\ last' = [Started("process", "pm5", x.key) EXCEPT !.newmsg = NextMsg]
  /\ UNCHANGED <<user_state, jiraVars, parkedJson, docVars, histVars>>
  /\ UNCHANGED auxVars

\* pm5_tasks.approve_task_breakdown(message_id, bot) through
\* handle_pm5_callback; it runs pm6_engineer.process_engineer_review inline
approve_task_breakdown(m) ==
  /\ m \in 1 .. Len(sent) /\ sent[m] = "pm5"
  /\ IF ~Has(pending.pm5, m)
     THEN /\ last' = Stale("approve", "pm5", m)
          /\ UNCHANGED <<pending, sent, tasks, notes, done>>
     ELSE \E created \in 0 .. pending.pm5[m].tasks, ok \in BOOLEAN, ok2 \in BOOLEAN,
             fail \in {"prd", "plans", "preview", "none"} :
            LET e == pending.pm5[m]
                review == [e EXCEPT !.tasks = created]
                base == [Held("approve", "pm5", m, e) EXCEPT !.next = "pm6",
                           !.netOk = (fail = "none" /\ created = e.tasks /\ ok /\ ok2)]
            IN /\ tasks' = [tasks EXCEPT ![e.epic] = Min(@ + created, NoteCap)]
               /\ notes' = add_comment(notes, e.issue_key, "tasks_created", ok)
               /\ done' = [done EXCEPT ![m] = @ \cup {"approve"}]
               /\ IF fail = "none" /\ pages[e.page].alive
                  THEN /\ Len(sent) < MaxMsg
                       /\ sent' = Append(sent, "pm6")
                       /\ pending' = [pending EXCEPT !.pm5 = Pop(@, m),
                                                     !.pm6 = Put(@, NextMsg, review)]
                       /\ last' = [base EXCEPT !.newmsg = NextMsg]
                  ELSE /\ pending' = [pending EXCEPT !.pm5 = Pop(@, m)]
                       /\ sent' = sent
                       /\ last' = [base EXCEPT
                                     !.netOk = FALSE]
  /\ UNCHANGED <<user_state, issues, markers, epics, parkedJson, docVars,
                 resumeButtons, parkOf>>
  /\ UNCHANGED auxVars

\* pm5_tasks.reject_task_breakdown(message_id) through handle_pm5_callback
reject_task_breakdown(m) ==
  /\ m \in 1 .. Len(sent) /\ sent[m] = "pm5"
  /\ IF ~Has(pending.pm5, m)
     THEN /\ last' = Stale("reject", "pm5", m)
          /\ UNCHANGED <<pending, done>>
     ELSE /\ pending' = [pending EXCEPT !.pm5 = Pop(@, m)]
          /\ done' = [done EXCEPT ![m] = @ \cup {"reject"}]
          /\ last' = Held("reject", "pm5", m, pending.pm5[m])
  /\ UNCHANGED <<user_state, sent, jiraVars, parkedJson, docVars, resumeButtons, parkOf>>
  /\ UNCHANGED auxVars

\* pm5_tasks.apply_task_changes(message_id, change_text, chat_id, bot) through
\* handle_text in mode awaiting_task_changes
apply_task_changes ==
  /\ user_state.mode = "awaiting_task_changes"
  /\ user_state' = Idle
  /\ LET m == user_state.preview_message_id
     IN IF ~Has(pending.pm5, m)
        THEN /\ last' = Stale("changes", "pm5", m)
             /\ UNCHANGED <<pending, sent>>
        ELSE \E fail \in {"regen", "preview", "none"}, n \in 1 .. MaxTasks :
               LET e == pending.pm5[m]
                   entry == [e EXCEPT !.tasks = n]
                   base == [Held("changes", "pm5", m, e) EXCEPT !.netOk = (fail = "none")]
               IN CASE fail = "regen" ->
                         /\ last' = base
                         /\ UNCHANGED <<pending, sent>>
                    [] fail = "preview" ->
                         /\ pending' = [pending EXCEPT !.pm5 = Pop(@, m)]
                         /\ sent' = sent
                         /\ last' = base
                    [] OTHER ->
                         /\ Len(sent) < MaxMsg
                         /\ sent' = Append(sent, "pm5")
                         /\ pending' = [pending EXCEPT
                                          !.pm5 = Put(Pop(@, m), NextMsg, entry)]
                         /\ last' = [base EXCEPT !.newmsg = NextMsg]
  /\ UNCHANGED <<jiraVars, parkedJson, docVars, histVars>>
  /\ UNCHANGED auxVars

\* ------------------------------------------------------------------ PM6
\* pm6_engineer.approve_engineer_review(message_id, bot) through
\* handle_pm6_callback
approve_engineer_review(m) ==
  /\ m \in 1 .. Len(sent) /\ sent[m] = "pm6"
  /\ IF ~Has(pending.pm6, m)
     THEN /\ last' = Stale("approve", "pm6", m)
          /\ UNCHANGED <<pending, done>>
     ELSE \E updated \in 0 .. pending.pm6[m].tasks, ok \in BOOLEAN :
            LET e == pending.pm6[m]
            IN /\ pending' = [pending EXCEPT !.pm6 = Pop(@, m)]
               /\ done' = [done EXCEPT ![m] = @ \cup {"approve"}]
               /\ last' = [Held("approve", "pm6", m, e) EXCEPT
                             !.netOk = (ok /\ updated = e.tasks)]
  /\ UNCHANGED <<user_state, sent, jiraVars, parkedJson, docVars, resumeButtons, parkOf>>
  /\ UNCHANGED auxVars

\* pm6_engineer.reject_engineer_review(message_id) through handle_pm6_callback
reject_engineer_review(m) ==
  /\ m \in 1 .. Len(sent) /\ sent[m] = "pm6"
  /\ IF ~Has(pending.pm6, m)
     THEN /\ last' = Stale("reject", "pm6", m)
          /\ UNCHANGED <<pending, done>>
     ELSE /\ pending' = [pending EXCEPT !.pm6 = Pop(@, m)]
          /\ done' = [done EXCEPT ![m] = @ \cup {"reject"}]
          /\ last' = Held("reject", "pm6", m, pending.pm6[m])
  /\ UNCHANGED <<user_state, sent, jiraVars, parkedJson, docVars, resumeButtons, parkOf>>
  /\ UNCHANGED auxVars

\* pm6_engineer.apply_engineer_changes(message_id, change_text, chat_id, bot)
\* through handle_text in mode awaiting_engineer_changes
apply_engineer_changes ==
  /\ user_state.mode = "awaiting_engineer_changes"
  /\ user_state' = Idle
  /\ LET m == user_state.preview_message_id
     IN IF ~Has(pending.pm6, m)
        THEN /\ last' = Stale("changes", "pm6", m)
             /\ UNCHANGED <<pending, sent>>
        ELSE \E fail \in {"regen", "preview", "none"} :
               LET e == pending.pm6[m]
                   base == [Held("changes", "pm6", m, e) EXCEPT !.netOk = (fail = "none")]
               IN CASE fail = "regen" ->
                         /\ last' = base
                         /\ UNCHANGED <<pending, sent>>
                    [] fail = "preview" ->
                         /\ pending' = [pending EXCEPT !.pm6 = Pop(@, m)]
                         /\ sent' = sent
                         /\ last' = base
                    [] OTHER ->
                         /\ Len(sent) < MaxMsg
                         /\ sent' = Append(sent, "pm6")
                         /\ pending' = [pending EXCEPT
                                          !.pm6 = Put(Pop(@, m), NextMsg, e)]
                         /\ last' = [base EXCEPT !.newmsg = NextMsg]
  /\ UNCHANGED <<jiraVars, parkedJson, docVars, histVars>>
  /\ UNCHANGED auxVars

\* ------------------------------------------------------------------ outside
\* somebody edits the PRD page in Confluence
edit_page_by_hand(p) ==
  /\ p \in 1 .. Len(pages) /\ pages[p].alive
  /\ \E c \in 1 .. MaxContent :
       /\ c # pages[p].c
       /\ pages' = [pages EXCEPT ![p].c = c]
  /\ last' = [NoLast EXCEPT !.op = "external"]
  /\ UNCHANGED <<chatVars, jiraVars, parkedJson, files, histVars>>
  /\ UNCHANGED auxVars

\* ------------------------------------------------------------------ system
Next ==
  \/ handle_idea
  \/ handle_idea_prompt
  \/ handle_text_idea
  \/ apply_idea_changes
  \/ apply_prd_changes
  \/ apply_prototype_changes
  \/ apply_epic_changes
  \/ apply_task_changes
  \/ apply_engineer_changes
  \/ proto_decision
  \/ handle_pending
  \/ restart
  \/ \E m \in MsgIds :
       \/ approve_idea(m) \/ reject_idea(m)
       \/ approve_prd(m) \/ reject_prd(m)
       \/ approve_prototype(m) \/ reject_prototype(m)
       \/ approve_epic(m) \/ reject_epic(m)
       \/ approve_task_breakdown(m) \/ reject_task_breakdown(m)
       \/ approve_engineer_review(m) \/ reject_engineer_review(m)
       \/ start_changes(m)
       \/ park(m)
  \/ \E k \in Keys :
       \/ handle_resume_callback(k)
       \/ delete_marker_by_hand(k)
       \/ foreign_park(k)
       \/ process_prd(k)
       \/ \E p \in PageIds : process_prototype(k, p) \/ process_epic(k, p)
  \/ \E ep \in EpicIds : process_task_breakdown(ep)
  \/ \E p \in PageIds : edit_page_by_hand(p)

Spec == Init /\ [][Next]_vars

\* the park store with the two stages that feed it an entry without and
\* with free text (pm1, pm2)
NextPark ==
  \/ handle_idea
  \/ handle_pending
  \/ restart
  \/ \E m \in MsgIds : park(m)
  \/ \E k \in Keys :
       \/ process_prd(k)
       \/ handle_resume_callback(k)
       \/ delete_marker_by_hand(k)
  \/ \E p \in PageIds : edit_page_by_hand(p)

SpecPark == Init /\ [][NextPark]_vars

\* stage 1 with its change loop
NextIdea ==
  \/ handle_idea
  \/ handle_idea_prompt
  \/ handle_text_idea
  \/ apply_idea_changes
  \/ \E m \in MsgIds :
       \/ approve_idea(m) \/ reject_idea(m)
       \/ start_changes(m)

SpecIdea == Init /\ [][NextIdea]_vars

\* the prototype stage with its change loop and the park store, started
\* where the first two stages have left an idea and its PRD page (the state
\* handle_idea and process_prd reach when their previews could not be sent)
InitProto ==
  /\ pending = [s \in Stages |-> << >>]
  /\ user_state = Idle
  /\ sent = << >>
  /\ issues = <<[summary |-> <<"a">>, wontdo |-> FALSE, idea |-> 1,
               edited |-> FALSE]>>
  /\ markers = [k \in Keys |-> << >>]
  /\ notes = [k \in Keys |-> [n \in NoteKinds |-> 0]]
  /\ parkedJson = [exists |-> FALSE, map |-> EmptyDict]
  /\ pages = <<[alive |-> TRUE, c |-> 1, gen |-> 1, link |-> FALSE, key |-> 1]>>
  /\ files = [f \in FileNames |-> 0]
  /\ epics = << >>
  /\ tasks = [e \in EpicIds |-> 0]
  /\ resumeButtons = {}
  /\ parking = [t \in Threads |-> NoCall]
  /\ boot = Booted
  /\ conv = NoConv
  /\ job = NoJob
  /\ parkOf = [k \in Keys |-> NoPark]
  /\ done = [m \in MsgIds |-> {}]
  /\ last = NoLast

NextProto ==
  \/ apply_prototype_changes
  \/ handle_pending
  \/ \E m \in MsgIds : start_changes(m) \/ park(m)
  \/ \E k \in Keys :
       \/ handle_resume_callback(k)
       \/ \E p \in PageIds : process_prototype(k, p)

SpecProto == InitProto /\ [][NextProto]_vars

\* the terminal actions of the first two stages
NextFlow ==
  \/ handle_idea
  \/ proto_decision
  \/ \E m \in MsgIds :
       \/ approve_idea(m) \/ reject_idea(m)
       \/ approve_prd(m) \/ reject_prd(m)
       \/ park(m)
  \/ \E k \in Keys : process_prd(k)

SpecFlow == Init /\ [][NextFlow]_vars

\* the process operations of the first four stages
NextProc ==
  \/ handle_idea
  \/ \E k \in Keys :
       \/ process_prd(k)
       \/ \E p \in PageIds : process_prototype(k, p) \/ process_epic(k, p)

SpecProc == Init /\ [][NextProc]_vars

\* the park store with a second writer that uses a stage tag of its own
NextForeign ==
  \/ handle_idea
  \/ handle_pending
  \/ \E m \in MsgIds : park(m)
  \/ \E k \in Keys : foreign_park(k) \/ handle_resume_callback(k)

SpecForeign == Init /\ [][NextForeign]_vars

\* the resume path, started where an earlier run of the process has parked
\* an idea at pm1 (marker comment and index entry written) and has exited
InitParked ==
  /\ pending = [s \in Stages |-> << >>]
  /\ user_state = Idle
  /\ sent = << >>
  /\ issues = <<[summary |-> <<"a">>, wontdo |-> FALSE, idea |-> 1,
               edited |-> FALSE]>>
  /\ markers = [k \in Keys |-> IF k = 1
                               THEN <<StoredCommentText(MarkerText("pm1", NoData))>>
                               ELSE << >>]
  /\ notes = [k \in Keys |-> [n \in NoteKinds |-> 0]]
  /\ parkedJson = [exists |-> TRUE, map |-> DictSet(EmptyDict, 1, "pm1")]
  /\ pages = << >>
  /\ files = [f \in FileNames |-> 0]
  /\ epics = << >>
  /\ tasks = [e \in EpicIds |-> 0]
  /\ resumeButtons = {}
  /\ parking = [t \in Threads |-> NoCall]
  /\ boot = Booted
  /\ conv = NoConv
  /\ job = NoJob
  /\ parkOf = [k \in Keys |-> IF k = 1
                              THEN [stage |-> "pm1", data |-> NoData, ok |-> TRUE]
                              ELSE NoPark]
  /\ done = [m \in MsgIds |-> {}]
  /\ last = NoLast

NextResume ==
  \/ handle_pending
  \/ restart
  \/ \E k \in Keys : handle_resume_callback(k)
  \/ \E m \in MsgIds : park(m) \/ approve_idea(m)

SpecResume == InitParked /\ [][NextResume]_vars

\* the two issue keys of a race
RaceKeys == {1, 2}

\* two handler threads parking two ideas, started where handle_idea has run
\* twice: two ideas, each with its preview and its pm1 entry
InitRace ==
  /\ pending = [s \in Stages |->
                  IF s = "pm1"
                  THEN [m \in RaceKeys |-> [NoEntry EXCEPT !.issue_key = m,
                                              !.text = <<"a">>, !.ctx = TRUE]]
                  ELSE << >>]
  /\ user_state = Idle
  /\ sent = <<"pm1", "pm1">>
  /\ issues = [k \in RaceKeys |-> [summary |-> <<"a">>, wontdo |-> FALSE,
                                   idea |-> k, edited |-> FALSE]]
  /\ markers = [k \in RaceKeys |-> << >>]
  /\ notes = [k \in RaceKeys |-> [n \in NoteKinds |-> 0]]
  /\ parkedJson \in {[exists |-> FALSE, map |-> EmptyDict],
                     [exists |-> TRUE, map |-> EmptyDict]}
  /\ pages = << >>
  /\ files = [f \in FileNames |-> 0]
  /\ epics = << >>
  /\ tasks = [e \in EpicIds |-> 0]
  /\ resumeButtons = {}
  /\ parking = [t \in Threads |-> NoCall]
  /\ boot = Booted
  /\ conv = NoConv
  /\ job = NoJob
  /\ parkOf = [k \in RaceKeys |-> NoPark]
  /\ done = [m \in MsgIds |-> {}]
  /\ last = NoLast

NextRace ==
  \E t \in Threads :
    \/ \E m \in MsgIds : park_begin(t, m)
    \/ park_read(t)
    \/ park_write(t)

SpecRace == InitRace /\ [][NextRace]_vars

\* the changes flow of the first two stages with the /idea command
NextChanges ==
  \/ handle_idea
  \/ handle_idea_prompt
  \/ handle_text_idea
  \/ apply_idea_changes
  \/ apply_prd_changes
  \/ \E m \in MsgIds : start_changes(m)
  \/ \E k \in Keys : process_prd(k)

SpecChanges == Init /\ [][NextChanges]_vars

\* ------------------------------------------------------------------ start-up
\* a check that passes as soon as one required variable is set; the start-up
\* property must tell it from preflight_check
preflight_check_any(env) == \E v \in Required : env[v] = "value"

\* main.preflight_check: "if not X: missing.append(...)" for each required
\* variable; None and "" are both missing
preflight_check(env) == \A v \in Required : env[v] = "value"

\* telegram_bot.bot: "TeleBot(TELEGRAM_BOT_TOKEN) if TELEGRAM_BOT_TOKEN else None"
bot(env) == env["TELEGRAM_BOT_TOKEN"] = "value"

\* main: preflight_check, exit(1) when it fails, else start_polling, which
\* returns at once when there is no bot
main ==
  /\ boot.pc = "start"
  /\ boot' = IF ~preflight_check(boot.env)
             THEN [boot EXCEPT !.pc = "exited", !.status = 1]
             ELSE IF ~bot(boot.env)
                  THEN [boot EXCEPT !.pc = "exited", !.status = 0]
                  ELSE [boot EXCEPT !.pc = "polling"]
  /\ UNCHANGED <<chatVars, jiraVars, parkedJson, docVars, histVars, last,
                 parking, conv, job>>

\* telegram_bot.start_polling: infinity_polling raises, the exception is
\* logged and the program ends
polling_crashed ==
  /\ boot.pc = "polling"
  /\ boot' = [boot EXCEPT !.pc = "exited", !.status = 0]
  /\ UNCHANGED <<chatVars, jiraVars, parkedJson, docVars, histVars, last,
                 parking, conv, job>>

\* infinity_polling hands an update to its handler
dispatch ==
  /\ boot.pc = "polling"
  /\ \/ handle_idea
     \/ handle_idea_prompt
     \/ handle_pending

\* the process from its start, with any environment
InitBoot ==
  /\ pending = [s \in Stages |-> << >>]
  /\ user_state = Idle
  /\ sent = << >>
  /\ issues = << >>
  /\ markers = [k \in Keys |-> << >>]
  /\ notes = [k \in Keys |-> [n \in NoteKinds |-> 0]]
  /\ parkedJson = [exists |-> FALSE, map |-> EmptyDict]
  /\ pages = << >>
  /\ files = [f \in FileNames |-> 0]
  /\ epics = << >>
  /\ tasks = [e \in EpicIds |-> 0]
  /\ resumeButtons = {}
  /\ parking = [t \in Threads |-> NoCall]
  /\ boot \in [env : [Required -> EnvValues], pc : {"start"}, status : {-1}]
  /\ conv = NoConv
  /\ job = NoJob
  /\ parkOf = [k \in Keys |-> NoPark]
  /\ done = [m \in MsgIds |-> {}]
  /\ last = NoLast

NextBoot == main \/ polling_crashed \/ dispatch

SpecBoot == InitBoot /\ [][NextBoot]_vars

\* ------------------------------------------------------------------ markdown conversion
\* lines of the markdown subset the generated documents use: headings of
\* level 1..6, bullet and numbered items, bold, a link, a table row, plain text
MdLines ==
  {Hashes(n) \o <<" ", "a">> : n \in 1 .. 6}
  \cup {<<"-", " ", "a">>, <<"*", " ", "a">>, <<"-", " ", "*", "*", "a", "*", "*">>,
        <<"1", ".", " ", "a">>,
        <<"*", "*", "a", "*", "*">>,
        <<"[", "a", "]", "(", "u", ")">>,
        <<"|", "a", "|", "b", "|">>,
        <<"a">>}

MdDocs == {Join(ls, <<NL>>) : ls \in UNION {[1 .. n -> MdLines] : n \in 1 .. MaxLines}}

\* jira_client.create_idea / update_idea / add_comment: the markdown goes
\* through markdown_to_adf
to_adf ==
  /\ conv.pc \in {"input", "wiki"}
  /\ conv' = [conv EXCEPT !.adf = markdown_to_adf(conv.x),
                          !.pc = IF conv.pc = "input" THEN "adf" ELSE "done"]
  /\ UNCHANGED <<chatVars, jiraVars, parkedJson, docVars, histVars, last,
                 parking, boot, job>>

\* confluence_client.create_page / update_page: the markdown goes through
\* markdown_to_wiki
to_wiki ==
  /\ conv.pc \in {"input", "adf"}
  /\ conv' = [conv EXCEPT !.wiki = markdown_to_wiki(conv.x),
                          !.pc = IF conv.pc = "input" THEN "wiki" ELSE "done"]
  /\ UNCHANGED <<chatVars, jiraVars, parkedJson, docVars, histVars, last,
                 parking, boot, job>>

\* one markdown document waiting to be written to Jira and to Confluence
InitConv ==
  /\ pending = [s \in Stages |-> << >>]
  /\ user_state = Idle
  /\ sent = << >>
  /\ issues = << >>
  /\ markers = [k \in Keys |-> << >>]
  /\ notes = [k \in Keys |-> [n \in NoteKinds |-> 0]]
  /\ parkedJson = [exists |-> FALSE, map |-> EmptyDict]
  /\ pages = << >>
  /\ files = [f \in FileNames |-> 0]
  /\ epics = << >>
  /\ tasks = [e \in EpicIds |-> 0]
  /\ resumeButtons = {}
  /\ parking = [t \in Threads |-> NoCall]
  /\ boot = Booted
  /\ conv \in [x : MdDocs, adf : {<< >>}, wiki : {<< >>}, pc : {"input"}]
  /\ job = NoJob
  /\ parkOf = [k \in Keys |-> NoPark]
  /\ done = [m \in MsgIds |-> {}]
  /\ last = NoLast

NextConv == to_adf \/ to_wiki

SpecConv == InitConv /\ [][NextConv]_vars

\* the epic stage alone, started where the first stages have left an idea
\* and its PRD page
NextEpic ==
  \/ apply_epic_changes
  \/ \E m \in MsgIds : approve_epic(m) \/ reject_epic(m) \/ start_changes(m)
  \/ \E k \in Keys : \E p \in PageIds : process_epic(k, p)

SpecEpic == InitProto /\ [][NextEpic]_vars

\* ------------------------------------------------------------------ PM5 approval loop
\* a task of a generated breakdown: its position and whether the JSON object
\* the AI returned has a "summary" key (process_task_breakdown only checks
\* that the breakdown is a non-empty list)
TaskLists ==
  UNION {[1 .. n -> [summary : BOOLEAN]] : n \in 1 .. MaxBatch}

\* pending_task_breakdowns.pop(message_id) has returned the entry and the
\* status message is sent: the loop over enumerate(tasks, 1) starts
ApproveTasks(ts) ==
  [op |-> "approve_tasks", pc |-> "loop", tasks |-> ts, i |-> 1,
   attempts |-> << >>, outcome |-> << >>, created |-> << >>, failed |-> 0,
   reviews |-> 0, review |-> << >>]

\* one round of the loop of approve_task_breakdown: create_task is called
\* with task.get("summary", f"Task {i}"); on success the task is appended to
\* created with task["summary"], which raises KeyError when the key is
\* missing and ends the handler
create_next_task ==
  /\ job.op = "approve_tasks" /\ job.pc = "loop" /\ job.i <= Len(job.tasks)
  /\ \E task_key \in BOOLEAN :
       job' = [job EXCEPT
                 !.attempts = Append(@, job.i),
                 !.outcome = Append(@, task_key),
                 !.created = IF task_key /\ job.tasks[job.i].summary
                             THEN Append(@, job.i) ELSE @,
                 !.failed = IF task_key THEN @ ELSE @ + 1,
                 !.pc = IF task_key /\ ~job.tasks[job.i].summary THEN "raised" ELSE "loop",
                 !.i = @ + 1]
  /\ UNCHANGED <<chatVars, jiraVars, parkedJson, docVars, histVars, last,
                 parking, boot, conv>>

\* the rest of approve_task_breakdown after the loop: the comments, the
\* confirmation and process_engineer_review(tasks_created=created), whose
\* task list has one item per element of tasks_created, in order
start_engineer_review ==
  /\ job.op = "approve_tasks" /\ job.pc = "loop" /\ job.i > Len(job.tasks)
  /\ job' = [job EXCEPT !.pc = "done", !.reviews = @ + 1, !.review = job.created]
  /\ UNCHANGED <<chatVars, jiraVars, parkedJson, docVars, histVars, last,
                 parking, boot, conv>>

\* Approve was tapped on a task breakdown preview that has its entry
InitTasks ==
  /\ pending = [s \in Stages |-> << >>]
  /\ user_state = Idle
  /\ sent = << >>
  /\ issues = << >>
  /\ markers = [k \in Keys |-> << >>]
  /\ notes = [k \in Keys |-> [n \in NoteKinds |-> 0]]
  /\ parkedJson = [exists |-> FALSE, map |-> EmptyDict]
  /\ pages = << >>
  /\ files = [f \in FileNames |-> 0]
  /\ epics = << >>
  /\ tasks = [e \in EpicIds |-> 0]
  /\ resumeButtons = {}
  /\ parking = [t \in Threads |-> NoCall]
  /\ boot = Booted
  /\ conv = NoConv
  /\ job \in {ApproveTasks(ts) : ts \in TaskLists}
  /\ parkOf = [k \in Keys |-> NoPark]
  /\ done = [m \in MsgIds |-> {}]
  /\ last = NoLast

NextTasks == create_next_task \/ start_engineer_review

SpecTasks == InitTasks /\ [][NextTasks]_vars

\* ------------------------------------------------------------------ PM7 sprint selection
MONTH_MAP ==
  [n \in {"january", "february", "march", "april", "may", "june", "july",
          "august", "september", "october", "november", "december"} |->
     CASE n = "january" -> 1 [] n = "february" -> 2 [] n = "march" -> 3
       [] n = "april" -> 4 [] n = "may" -> 5 [] n = "june" -> 6
       [] n = "july" -> 7 [] n = "august" -> 8 [] n = "september" -> 9
       [] n = "october" -> 10 [] n = "november" -> 11 [] n = "december" -> 12]

\* str.lower() on the words the roadmap field holds
LowerWord(w) ==
  CASE w = "March" -> "march" [] w = "APRIL" -> "april"
    [] w = "Backlog" -> "backlog" [] w = "Shipped" -> "shipped"
    [] w = "Soon" -> "soon" [] OTHER -> w

\* a roadmap value as the tokens the pattern ^(\w+)\s*\(S(\d+)\)$ reads:
\* a word alone, or a word, "(", "S", a number and ")"
SprintValue(w, n) == <<w, "(", "S", n, ")">>

NoTarget == [ok |-> FALSE, month |-> 0, index |-> 0]

\* pm7_sprint.parse_roadmap_value(roadmap_str): (month_number, sprint_index)
\* or (None, None)
parse_roadmap_value(roadmap_str) ==
  IF roadmap_str = << >> THEN NoTarget
  ELSE IF Len(roadmap_str) = 1
          /\ LowerWord(roadmap_str[1]) \in {"backlog", "shipped", "delivered"}
  THEN NoTarget
  ELSE IF ~(/\ Len(roadmap_str) = 5
            /\ roadmap_str[2] = "(" /\ roadmap_str[3] = "S" /\ roadmap_str[5] = ")")
  THEN NoTarget
  ELSE LET month_name == LowerWord(roadmap_str[1])
           sprint_num == roadmap_str[4]
       IN IF month_name \notin DOMAIN MONTH_MAP THEN NoTarget
          ELSE [ok |-> TRUE, month |-> MONTH_MAP[month_name], index |-> sprint_num - 1]

\* the sort key s.get("startDate", ""): ISO dates of one format order as
\* their (year, month, day)
StartKey(sprint) == (sprint.start.year * 12 + sprint.start.month) * 31 + sprint.start.day

\* list.sort(key=...) : stable insertion of x into a sorted list
RECURSIVE InsertByStart(_, _)
InsertByStart(sorted, x) ==
  IF sorted = << >> THEN <<x>>
  ELSE IF StartKey(sorted[Len(sorted)]) <= StartKey(x) THEN Append(sorted, x)
  ELSE Append(InsertByStart(SubSeq(sorted, 1, Len(sorted) - 1), x), sorted[Len(sorted)])

RECURSIVE SortByStart(_)
SortByStart(sprints) ==
  IF sprints = << >> THEN << >>
  ELSE InsertByStart(SortByStart(SubSeq(sprints, 1, Len(sprints) - 1)),
                     sprints[Len(sprints)])

NoSprint == [kind |-> "none", id |-> 0]

\* month_sprints[sprint_index] of Python: a negative index counts from the
\* end, an index out of range raises IndexError
PyIndex(list, index) ==
  IF index >= 0 /\ index < Len(list) THEN [kind |-> "sprint", id |-> list[index + 1].id]
  ELSE IF index < 0 /\ -index <= Len(list)
  THEN [kind |-> "sprint", id |-> list[Len(list) + index + 1].id]
  ELSE [kind |-> "raised", id |-> 0]

\* pm7_sprint.find_matching_sprint(target_month, sprint_index, sprints) at
\* the date now
find_matching_sprint(target_month, sprint_index, sprints, now) ==
  LET target_year == IF target_month < now.month THEN now.year + 1 ELSE now.year
      month_sprints == SortByStart(SelectSeq(sprints,
                         LAMBDA s : s.start.month = target_month /\ s.start.year = target_year))
      any_year == SortByStart(SelectSeq(sprints, LAMBDA s : s.start.month = target_month))
  IN IF sprint_index < Len(month_sprints) THEN PyIndex(month_sprints, sprint_index)
     ELSE IF month_sprints = << >> /\ sprint_index < Len(any_year)
     THEN PyIndex(any_year, sprint_index)
     ELSE NoSprint

\* start dates the board's sprints can have: this year or the next, two
\* months, two days
StartDates == [year : {1, 2}, month : {3, 4}, day : {1, 15}]

\* a sprint as Jira returns it; the id stands for the sprint
SprintOf(d) == [id |-> (d.year * 12 + d.month) * 31 + d.day, start |-> d]

\* the sprint lists handed to find_matching_sprint: distinct sprints, any order
SprintLists ==
  UNION {{s \in [1 .. n -> {SprintOf(d) : d \in StartDates}] :
            \A i, j \in 1 .. n : i # j => s[i] # s[j]} : n \in 0 .. MaxSprints}

\* the roadmap values of the idea: empty, a word, or "Month (SN)"
RoadmapValues ==
  {<< >>, <<"Backlog">>, <<"Soon">>}
    \cup {SprintValue(w, n) : w \in {"March", "APRIL", "Smarch"}, n \in 0 .. MaxSprintNum}

\* datetime.now() as the scheduling sees it: the year and the month
NowValues == [year : {1}, month : {3, 4}]

SelectSprint(roadmap, sprints, now) ==
  [op |-> "select_sprint", pc |-> "input", roadmap |-> roadmap, sprints |-> sprints,
   now |-> now, target |-> NoTarget, result |-> NoSprint]

\* Steps 1-2 of process_sprint_scheduling: parse the roadmap value
parse_roadmap ==
  /\ job.op = "select_sprint" /\ job.pc = "input"
  /\ job' = [job EXCEPT !.target = parse_roadmap_value(job.roadmap),
                        !.pc = IF parse_roadmap_value(job.roadmap).ok
                               THEN "parsed" ELSE "no_target"]
  /\ UNCHANGED <<chatVars, jiraVars, parkedJson, docVars, histVars, last, parking, boot, conv>>

\* Step 3 of process_sprint_scheduling: find the matching sprint
match_sprint ==
  /\ job.op = "select_sprint" /\ job.pc = "parsed"
  /\ job' = [job EXCEPT !.result = find_matching_sprint(job.target.month, job.target.index,
                                                        job.sprints, job.now),
                        !.pc = "selected"]
  /\ UNCHANGED <<chatVars, jiraVars, parkedJson, docVars, histVars, last, parking, boot, conv>>

NextSelect == parse_roadmap \/ match_sprint

InitSelect ==
  /\ pending = [s \in Stages |-> << >>]
  /\ user_state = Idle
  /\ sent = << >>
  /\ issues = << >>
  /\ markers = [k \in Keys |-> << >>]
  /\ notes = [k \in Keys |-> [n \in NoteKinds |-> 0]]
  /\ parkedJson = [exists |-> FALSE, map |-> EmptyDict]
  /\ pages = << >>
  /\ files = [f \in FileNames |-> 0]
  /\ epics = << >>
  /\ tasks = [e \in EpicIds |-> 0]
  /\ resumeButtons = {}
  /\ parking = [t \in Threads |-> NoCall]
  /\ boot = Booted
  /\ conv = NoConv
  /\ job \in {SelectSprint(r, s, n) : r \in RoadmapValues, s \in SprintLists, n \in NowValues}
  /\ parkOf = [k \in Keys |-> NoPark]
  /\ done = [m \in MsgIds |-> {}]
  /\ last = NoLast

SpecSelect == InitSelect /\ [][NextSelect]_vars

\* ------------------------------------------------------------------ PM7 scheduling
\* the sprint lists get_future_sprints returns to the scheduling: sorted by
\* start date
BoardSprints == {s \in SprintLists : Len(s) <= 2 /\ s = SortByStart(s)}

\* process_sprint_scheduling(source_idea_key, epic_key, tasks, ...): all_keys
\* is the epic followed by n_tasks tasks, named by their positions
Schedule(roadmap, sprints, now, n_tasks) ==
  [op |-> "schedule", pc |-> "start", roadmap |-> roadmap, sprints |-> sprints, now |-> now,
   all_keys |-> [k \in 1 .. n_tasks + 1 |-> k], target |-> NoTarget, result |-> NoSprint,
   i |-> 1, moved |-> {}, failed_keys |-> << >>, assigned |-> {}, transitioned |-> {}]

\* Steps 1-2: read the idea's Roadmap field and parse it
read_roadmap ==
  /\ job.op = "schedule" /\ job.pc = "start"
  /\ \E issue \in BOOLEAN :
       job' = IF ~issue THEN [job EXCEPT !.pc = "no_issue"]
              ELSE IF job.roadmap = << >> THEN [job EXCEPT !.pc = "no_roadmap"]
              ELSE IF ~parse_roadmap_value(job.roadmap).ok THEN [job EXCEPT !.pc = "no_target"]
              ELSE [job EXCEPT !.pc = "parsed", !.target = parse_roadmap_value(job.roadmap)]
  /\ UNCHANGED <<chatVars, jiraVars, parkedJson, docVars, histVars, last, parking, boot, conv>>

\* what Step 3 leaves: the sprint, no sprint, or the IndexError
FoundPc(result) ==
  CASE result.kind = "sprint" -> "move"
    [] result.kind = "none" -> "no_sprint"
    [] OTHER -> "raised"

\* Step 3: get the future sprints and find the matching one
find_sprint ==
  /\ job.op = "schedule" /\ job.pc = "parsed"
  /\ \E fetched \in BOOLEAN :
       job' = IF ~fetched \/ job.sprints = << >> THEN [job EXCEPT !.pc = "no_sprints"]
              ELSE [job EXCEPT
                      !.result = find_matching_sprint(job.target.month, job.target.index,
                                                      job.sprints, job.now),
                      !.pc = FoundPc(find_matching_sprint(job.target.month, job.target.index,
                                                          job.sprints, job.now))]
  /\ UNCHANGED <<chatVars, jiraVars, parkedJson, docVars, histVars, last, parking, boot, conv>>

\* Step 4, one turn of the loop: move_to_sprint(key, sprint_id)
move_next ==
  /\ job.op = "schedule" /\ job.pc = "move"
  /\ \E ok \in BOOLEAN :
       job' = [job EXCEPT
                 !.moved = IF ok THEN @ \cup {job.all_keys[job.i]} ELSE @,
                 !.failed_keys = IF ok THEN @ ELSE Append(@, job.all_keys[job.i]),
                 !.i = IF job.i = Len(job.all_keys) THEN 1 ELSE @ + 1,
                 !.pc = IF job.i = Len(job.all_keys) THEN "assign" ELSE "move"]
  /\ UNCHANGED <<chatVars, jiraVars, parkedJson, docVars, histVars, last, parking, boot, conv>>

\* Step 5, one turn of the loop: assign_issue(key) and transition_issue(key)
assign_next ==
  /\ job.op = "schedule" /\ job.pc = "assign"
  /\ \E a_ok, t_ok \in BOOLEAN :
       job' = [job EXCEPT
                 !.assigned = IF a_ok THEN @ \cup {job.all_keys[job.i]} ELSE @,
                 !.transitioned = IF t_ok THEN @ \cup {job.all_keys[job.i]} ELSE @,
                 !.i = @ + 1,
                 !.pc = IF job.i = Len(job.all_keys) THEN "done" ELSE "assign"]
  /\ UNCHANGED <<chatVars, jiraVars, parkedJson, docVars, histVars, last, parking, boot, conv>>

InitSchedule ==
  /\ pending = [s \in Stages |-> << >>]
  /\ user_state = Idle
  /\ sent = << >>
  /\ issues = << >>
  /\ markers = [k \in Keys |-> << >>]
  /\ notes = [k \in Keys |-> [n \in NoteKinds |-> 0]]
  /\ parkedJson = [exists |-> FALSE, map |-> EmptyDict]
  /\ pages = << >>
  /\ files = [f \in FileNames |-> 0]
  /\ epics = << >>
  /\ tasks = [e \in EpicIds |-> 0]
  /\ resumeButtons = {}
  /\ parking = [t \in Threads |-> NoCall]
  /\ boot = Booted
  /\ conv = NoConv
  /\ job \in {Schedule(r, s, n, t) : r \in RoadmapValues, s \in BoardSprints,
                                     n \in NowValues, t \in 0 .. MaxBatch - 1}
  /\ parkOf = [k \in Keys |-> NoPark]
  /\ done = [m \in MsgIds |-> {}]
  /\ last = NoLast

NextSchedule == read_roadmap \/ find_sprint \/ move_next \/ assign_next

SpecSchedule == InitSchedule /\ [][NextSchedule]_vars

\* ------------------------------------------------------------------ properties
ListedKeys(items) == {it[1] : it \in items}

\* C1: when park_item(k, S, data) has returned success (here: with every one
\* of its calls succeeding) and list_parked() runs as the very next operation
\* (every call succeeding), the list has an entry for k with stage S.
C1_ParkThenListed ==
  [][(/\ last.op = "park" /\ last.ret /\ last.netOk
      /\ last'.op = "list" /\ last'.netOk)
     => <<last.key, last.stage>> \in last'.items]_vars

\* C2: unpark_item(k) after a successful park_item(k, S, data) (k carrying
\* that one marker comment, every call succeeding) finds the item and returns
\* stage S and a payload equal to data.
C2_UnparkReturnsParked ==
  [][(/\ last'.op = "resume" /\ last'.netOk
      /\ parkOf[last'.key].stage # "none" /\ parkOf[last'.key].ok
      /\ Len(markers[last'.key]) = 1)
     => (/\ last'.found
         /\ last'.stage = parkOf[last'.key].stage
         /\ last'.rdata = parkOf[last'.key].data)]_vars

C7_ParkedSurvivesRestart ==
  [][(last.op = "restart" /\ last'.op = "list" /\ last'.netOk)
     => \A k \in Keys :
          (/\ parkOf[k].stage # "none" /\ parkOf[k].ok
           /\ markers[k] # << >> /\ k \in DOMAIN parkedJson.map)
            => <<k, parkOf[k].stage>> \in last'.items]_vars

\* the text fetch_page_content extracts from page p as it is now
LiveText(p) == [form |-> "text", c |-> pages[p].c, link |-> pages[p].link]

ProtoFiles(fs, k) == {f \in FileNames : f.key = k /\ fs[f] # 0}

\* C9: applying changes to a prototype entry (one obtained by park and
\* resume included) leaves every file but the one process_prototype wrote for
\* the issue key untouched, and the issue key has exactly one prototype file
\* afterwards.
C9_SameFile ==
  [][(last'.op = "changes" /\ last'.stage = "pm3" /\ last'.found)
     => (/\ \A f \in FileNames :
              f # prototype_filename(last'.key) => files'[f] = files[f]
         /\ ProtoFiles(files, last'.key) = {prototype_filename(last'.key)}
         /\ ProtoFiles(files', last'.key) = {prototype_filename(last'.key)})]_vars

\* changes were applied to a prototype entry that came out of a resume (its
\* context texts are empty): the regenerated HTML was pushed, the entry left
\* its old message id, and the issue key still has its one file
C9_Witness ==
  /\ last.op = "changes" /\ last.stage = "pm3" /\ last.found /\ ~last.ctx
  /\ ~Has(pending.pm3, last.msg)
  /\ ProtoFiles(files, last.key) = {prototype_filename(last.key)}

\* the issues that exist for the idea of issue k
IssuesOf(iss, k) == {i \in 1 .. Len(iss) : iss[i].idea = iss[k].idea}

C4_SecondApproveIsStale ==
  [][(last'.op = "approve" /\ "approve" \in done[last'.msg])
     => (/\ ~last'.found
         /\ notes' = notes /\ issues' = issues
         /\ epics' = epics /\ tasks' = tasks)]_vars

\* C5: for every preview at most one of approve, reject and park takes
\* effect.
C5_OneTerminalAction == \A m \in MsgIds : Cardinality(done[m]) <= 1

\* the stages whose process operation an approve at stage s is to start
NextStages(s) ==
  CASE s = "pm1" -> {"pm2"}
    [] s = "pm2" -> {"pm3", "pm4"}
    [] s = "pm3" -> {"pm4"}
    [] s = "pm4" -> {"pm5"}
    [] s = "pm5" -> {"pm6"}
    [] OTHER -> {"pm7"}

\* C6: an approve that found its entry and whose calls all succeeded has
\* started the process operation of the next stage.
C6_ApproveChains ==
  [][(last'.op = "approve" /\ last'.found /\ last'.netOk)
     => last'.next \in NextStages(last'.stage)]_vars

\* C11: when apply_*_changes has returned for an entry it found, either the
\* entry has moved to the id of the new preview (same issue key, page and
\* prototype reference, no issue or page added) or every pending dict is as
\* it was before.
C11_ChangesKeepEntry ==
  [][(last'.op = "changes" /\ last'.found)
     => LET s == last'.stage
            m == last'.msg
            n == last'.newmsg
        IN IF n # 0
           THEN /\ ~Has(pending'[s], m) /\ Has(pending'[s], n)
                /\ pending'[s][n].issue_key = pending[s][m].issue_key
                /\ pending'[s][n].page = pending[s][m].page
                /\ Len(issues') = Len(issues) /\ Len(pages') = Len(pages)
           ELSE pending' = pending]_vars

external == <<issues, markers, notes, epics, tasks, parkedJson, pages, files>>

\* C13: an approve, reject, changes (button tap or instructions reply) or
\* park on a preview id that has no entry tells the user "already processed
\* or expired" and changes no external state.
C13_StaleIsReported ==
  [][(/\ last'.op \in {"approve", "reject", "start_changes", "changes", "park"}
      /\ ~last'.found)
     => (last'.told /\ external' = external)]_vars

\* C14: after a resume (every call succeeding) of an item parked under a
\* stage tag that is not one of pm1..pm6 the item is still parked (marker
\* comment and index entry) or an entry has been installed for it.
C14_UnknownStageNotStranded ==
  [][(/\ last'.op = "resume" /\ last'.found /\ last'.netOk
      /\ last'.stage \notin Stages)
     => (\/ (/\ FirstMarker(markers'[last'.key]) # 0
             /\ last'.key \in DOMAIN parkedJson'.map)
         \/ last'.newmsg # 0)]_vars

\* C15: when the Park action has fired on a preview that had an entry, the
\* entry is gone and its issue carries a marker comment from which the stage
\* and the minimal fields of that entry can be read.
C15_ParkLeavesRecord ==
  [][(last'.op = "park" /\ last'.found)
     => LET s == last'.stage
            e == pending[s][last'.msg]
        IN /\ ~Has(pending'[s], last'.msg)
           /\ \E i \in 1 .. Len(markers'[e.issue_key]) :
                LET r == ParseMarker(markers'[e.issue_key][i])
                IN r.ok /\ r.stage = s /\ r.data = store_data_for_stage(s, e)]_vars

\* C16: for every entry p held for a stage S of pm1..pm3, with the external
\* systems as they are and every fetch succeeding,
\* reconstruct_pending(S, key, summary, store_data_for_stage(S, p)) equals p
\* on the fields the stage's approve, reject and changes operations read
\* (the context texts and the document body among them).
C16_ReconstructRoundTrip ==
  \A s \in {"pm1", "pm2", "pm3"} : \A m \in DOMAIN pending[s] :
    LET p == pending[s][m]
        k == p.issue_key
    IN reconstruct_pending(s, k, issues[k].summary,
                           store_data_for_stage(s, p),
                           fetch_page_content(pages, p.page, TRUE),
                           fetch_prototype_html(files, k, TRUE)) = p

C18_OneMarkerMostRecent ==
  \A k \in Keys :
    /\ Len(markers[k]) <= 1
    /\ (markers[k] # << >> /\ parkOf[k].stage # "none") =>
         LET un == unpark_item(markers, parkedJson, k,
                               [comments |-> TRUE, delete |-> TRUE,
                                read |-> TRUE, write |-> TRUE])
             ls == list_parked(markers, parkedJson,
                               [read |-> TRUE, read2 |-> TRUE, write |-> TRUE,
                                issue |-> [j \in DOMAIN parkedJson.map |-> TRUE],
                                comments |-> [j \in DOMAIN parkedJson.map |-> TRUE]])
         IN /\ un.found /\ un.stage = parkOf[k].stage /\ un.data = parkOf[k].data
            /\ \A it \in ls.items :
                 it.issue_key = k => (it.stage = parkOf[k].stage /\ it.data = parkOf[k].data)

\* C19: a step that removes from the index a key whose issue still carries
\* a marker comment is the resume of that key; a list_parked() whose calls
\* all succeed removes only keys whose issue carries no marker comment.
C19_OnlyResumeEvicts ==
  [][\A k \in (DOMAIN parkedJson.map) \ (DOMAIN parkedJson'.map) :
       (\E i \in 1 .. Len(markers[k]) : StartsWithMarker(markers[k][i]))
         => (/\ last'.op # "list" \/ ~last'.netOk
             /\ last'.op = "list" \/ (last'.op = "resume" /\ last'.key = k))]_vars

\* the answer of list_parked() when every call it makes succeeds
ListedNow ==
  {it.issue_key :
     it \in list_parked(markers, parkedJson,
                        [read |-> TRUE, read2 |-> TRUE, write |-> TRUE,
                         issue |-> [j \in DOMAIN parkedJson.map |-> TRUE],
                         comments |-> [j \in DOMAIN parkedJson.map |-> TRUE]]).items}

\* C20: when no park_item call is in progress, a key whose marker comment was
\* written and whose index calls did not fail but which is missing from the
\* index is not returned by list_parked(), and it was dropped by the other
\* call: the index holds the other key and that key's marker is written.
C20_RaceDropsKey ==
  \A k \in DOMAIN markers :
    (/\ \A t \in Threads : parking[t].pc = "idle"
     /\ markers[k] # << >> /\ parkOf[k].ok
     /\ k \notin DOMAIN parkedJson.map)
      => (/\ k \notin ListedNow
          /\ \E j \in (DOMAIN parkedJson.map) \ {k} : markers[j] # << >>)

\* two park_item calls for distinct keys have returned, no call of either
\* failed, both marker comments are written and the index holds one key
C20_Witness ==
  /\ \A t \in Threads : parking[t].pc = "idle"
  /\ \A k \in RaceKeys : k \in DOMAIN markers /\ markers[k] # << >> /\ parkOf[k].ok
  /\ Cardinality(DOMAIN parkedJson.map) = 1
  /\ Cardinality(ListedNow) = 1

\* the rejection side effect of the stage: PM1 marks the idea Won't Do and
\* adds one rejection comment, PM2 deletes the PRD page
RejectApplied(s, e) ==
  CASE s = "pm1" -> /\ issues'[e.issue_key].wontdo
                    /\ notes'[e.issue_key].pm1_rejected
                         = notes[e.issue_key].pm1_rejected + 1
    [] s = "pm2" -> ~pages'[e.page].alive
    [] OTHER -> TRUE

\* the operations on a preview that look up its entry
EntryOps == {"approve", "reject", "start_changes", "changes", "park"}

ChangeModes == {ChangeMode(s) : s \in Stages}

\* what an accepted Changes tap and a reply do to the chat: the tap records
\* the stage's mode and the preview; a free-text message that arrives in a
\* change mode goes to that stage's apply operation for the recorded
\* preview, creates no idea and leaves the chat idle
TapAndReply ==
  /\ (last'.op = "start_changes" /\ last'.found)
       => user_state' = [mode |-> ChangeMode(last'.stage),
                         preview_message_id |-> last'.msg]
  /\ (user_state.mode \in ChangeModes /\ last'.op = "changes")
       => (/\ last'.msg = user_state.preview_message_id
           /\ user_state.mode = ChangeMode(last'.stage)
           /\ last'.found = Has(pending[last'.stage], last'.msg)
           /\ user_state' = Idle
           /\ Len(issues') = Len(issues))

C24_PollsOnlyWhenConfigured ==
  /\ boot.pc = "polling" => \A v \in Required : boot.env[v] = "value"
  /\ boot.pc = "start" => last = NoLast
  /\ ((\E v \in Required : boot.env[v] # "value") /\ boot.pc # "start")
       => (/\ boot.pc = "exited" /\ boot.status = 1
           /\ last = NoLast /\ sent = << >> /\ user_state = Idle)

\* the program has exited with status 1 because the bot token alone is unset
C24_Witness ==
  /\ boot.pc = "exited" /\ boot.status = 1
  /\ \A v \in Required : (boot.env[v] = "unset") = (v = "TELEGRAM_BOT_TOKEN")
  /\ \A v \in Required \ {"TELEGRAM_BOT_TOKEN"} : boot.env[v] = "value"

\* the marks _parse_inline_markdown gives a text node
Marks(node) == IF node.strong THEN {"strong"} ELSE {}

\* one entry per heading, paragraph and listItem of an ADF document, in order
RECURSIVE AdfItems(_)
AdfItems(nodes) ==
  IF nodes = << >> THEN << >>
  ELSE LET n == Head(nodes)
       IN (IF n.type \in {"bulletList", "orderedList"}
           THEN [k \in 1 .. Len(n.items) |-> [type |-> n.type, level |-> 0, content |-> n.items[k]]]
           ELSE <<[type |-> n.type, level |-> n.level, content |-> n.content]>>)
          \o AdfItems(Tail(nodes))

\* markdown reading of a line: heading level (0 = none), list kind, spans
MdLevel(line) ==
  LET hits == {n \in 1 .. 6 : StartsWith(line, Hashes(n) \o <<" ">>)}
  IN IF hits = {} THEN 0 ELSE CHOOSE n \in hits : TRUE
MdBullet(line) == StartsWith(line, <<"-", " ">>) \/ StartsWith(line, <<"*", " ">>)
MdOrdered(line) == line[1] \in Digits /\ StartsWith(Tail(line), <<".", " ">>)
MdBold(line) == Find(line, <<"*", "*", "a", "*", "*">>, 0) # -1
MdLink(line) == Find(line, <<"[", "a", "]", "(", "u", ")">>, 0) # -1

\* line i of the converted input keeps its structure in both outputs
Preserved(line, item, wiki) ==
  /\ MdLevel(line) > 0 =>
       /\ item.type = "heading" /\ item.level = MdLevel(line)
       /\ StartsWith(wiki, WikiHeading(MdLevel(line)))
  /\ MdBullet(line) => item.type = "bulletList" /\ StartsWith(wiki, <<"*", " ">>)
  /\ MdOrdered(line) => item.type = "orderedList" /\ StartsWith(wiki, <<"#", " ">>)
  /\ MdBold(line) =>
       /\ \E k \in 1 .. Len(item.content) :
            item.content[k].text = <<"a">> /\ "strong" \in Marks(item.content[k])
       /\ Find(wiki, <<"*", "a", "*">>, 0) # -1 /\ Find(wiki, <<"*", "*">>, 0) = -1
  /\ MdLink(line) =>
       /\ \E k \in 1 .. Len(item.content) : "link" \in Marks(item.content[k])
       /\ Find(wiki, <<"[", "a", "|", "u", "]">>, 0) # -1

\* C25: for markdown built from the supported subset, markdown_to_adf and
\* markdown_to_wiki both keep every heading's level, every list line's kind
\* and the bold and link marks of every span.
C25_ConversionsPreserve ==
  conv.pc = "done" =>
    LET lines == SplitBy(conv.x, NL)
        items == AdfItems(conv.adf)
        wiki == SplitBy(conv.wiki, NL)
    IN /\ Len(items) = Len(lines)
       /\ Len(wiki) = Len(lines)
       /\ \A i \in 1 .. Len(lines) : Preserved(lines[i], items[i], wiki[i])

\* C26: when a parked prototype item is resumed with every call succeeding,
\* the html_content of the installed entry is the HTML stored in the file
\* process_prototype and apply_prototype_changes push for that issue key.
C26_ResumeReadsPushedFile ==
  [][(last'.op = "resume" /\ last'.stage = "pm3" /\ last'.netOk /\ last'.newmsg # 0)
     => (/\ files[prototype_filename(last'.key)] # 0
         /\ changes_filename(last'.key) = prototype_filename(last'.key)
         /\ pending'.pm3[last'.newmsg].body
              = Md(files[prototype_filename(last'.key)]))]_vars

\* C27: when Approve is tapped on an epic preview that has its entry and the
\* epic creation fails (no epic is created), the entry is still held
\* afterwards under the same preview, so Approve can be tapped again.
C27_FailedApproveKeeps ==
  [][(last'.op = "approve" /\ last'.stage = "pm4" /\ last'.found /\ epics' = epics)
     => (/\ Has(pending'.pm4, last'.msg)
         /\ pending'.pm4[last'.msg] = pending.pm4[last'.msg])]_vars

\* C28: a park of a held entry returns True exactly when both writes were
\* made: the issue has one marker comment more and the index names the key
\* with the stage; when either write failed it returns False.
C28_ParkReturnsTruth ==
  [][(last'.op = "park" /\ last'.found)
     => (last'.ret <=>
           (/\ Len(markers'[last'.key]) = Len(markers[last'.key]) + 1
            /\ last'.key \in DOMAIN parkedJson'.map
            /\ parkedJson'.map[last'.key] = last'.stage))]_vars

\* the issue keys that have an entry in one of the pending dicts
HeldKeys == {pending[s][m].issue_key : <<s, m>> \in {<<s, m>> \in Stages \X MsgIds : Has(pending[s], m)}}

\* the issue keys whose issue carries a marker comment
MarkedKeys == {k \in Keys : FirstMarker(markers[k]) # 0}

ResumeCallsOk == last.op = "resume" => last.netOk

C30_ResumeNeverLoses ==
  [][(last'.op = "resume" /\ last'.found /\ last'.stage \in Stages)
     => IF last'.newmsg # 0
        THEN /\ Has(pending'[last'.stage], last'.newmsg)
             /\ pending'[last'.stage][last'.newmsg].issue_key = last'.key
        ELSE /\ last'.key \in MarkedKeys'
             /\ last'.key \in DOMAIN parkedJson'.map]_vars

\* the PRD previews that were approved and still have their entry
ApprovedPrds == {m \in DOMAIN pending.pm2 : "approve" \in done[m]}

\* C31: a prototype decision (Yes or No) taken while an approved PRD still
\* has its entry removes that entry; a decision taken when no approved PRD
\* has an entry reports that none is pending and changes nothing.
C31_DecisionConsumedOnce ==
  [][last'.op = "proto_decision"
     => IF ApprovedPrds # {}
        THEN \E m \in ApprovedPrds : ~Has(pending'.pm2, m)
        ELSE last'.told /\ pending' = pending /\ sent' = sent]_vars

\* the approval of a task breakdown has come to its end
TasksEnded == job.op = "approve_tasks" /\ job.pc \in {"done", "raised"}

\* the positions whose create_task call returned a key, in order
Succeeded == SelectSeq(job.attempts, LAMBDA k : job.outcome[k])

\* C32: when approve_task_breakdown has ended, every task of the breakdown
\* was attempted exactly once, in order, exactly one PM6 review was started,
\* its task list is the tasks whose creation succeeded, in order, and the
\* failures are counted.
C32_CreatedTasksPassedOn ==
  TasksEnded =>
    /\ job.attempts = [k \in 1 .. Len(job.tasks) |-> k]
    /\ job.reviews = 1
    /\ job.review = Succeeded
    /\ job.failed = Len(job.tasks) - Len(Succeeded)

\* the selection has run on a value "Month (SN)" that names a month
SelectedForMonth ==
  /\ job.op = "select_sprint" /\ job.pc = "selected"
  /\ Len(job.roadmap) = 5 /\ LowerWord(job.roadmap[1]) \in DOMAIN MONTH_MAP

\* the sprints of the list that start in month m of year y
StartingIn(m, y) ==
  {job.sprints[i] : i \in {j \in DOMAIN job.sprints :
      job.sprints[j].start.month = m /\ job.sprints[j].start.year = y}}

\* the sprints that qualify: those of the target year, or of any year when
\* the target year has none in that month
Qualifying ==
  LET m == MONTH_MAP[LowerWord(job.roadmap[1])]
      y == IF m < job.now.month THEN job.now.year + 1 ELSE job.now.year
  IN IF StartingIn(m, y) # {} THEN StartingIn(m, y)
     ELSE UNION {StartingIn(m, yy) : yy \in {1, 2}}

\* the N-th of a set of sprints by ascending start date
NthByStart(S, n) ==
  {s \in S : Cardinality({t \in S : StartKey(t) < StartKey(s)}) = n - 1}

\* C34: for a roadmap value "Month (SN)" the selected sprint is the N-th by
\* start date of the sprints starting in that month of the target year (of
\* any year when the target year has none), and no sprint is selected when
\* fewer than N qualify or N is 0.
C34_NthSprintOfMonth ==
  SelectedForMonth =>
    IF job.roadmap[4] >= 1 /\ job.roadmap[4] <= Cardinality(Qualifying)
    THEN job.result.kind = "sprint"
         /\ job.result.id \in {s.id : s \in NthByStart(Qualifying, job.roadmap[4])}
    ELSE job.result = NoSprint

\* the scheduling returned before Step 4
ScheduleSkipped ==
  job.op = "schedule"
  /\ job.pc \in {"no_issue", "no_roadmap", "no_target", "no_sprints", "no_sprint", "raised"}

\* C33: in process_sprint_scheduling an issue is assigned or transitioned
\* to Ready only if it was moved into the target sprint, and nothing is
\* moved, assigned or transitioned when the roadmap value is not a sprint
\* target or no matching sprint exists.
C33_ReadyOnlyIfMoved ==
  job.op = "schedule" =>
    /\ job.assigned \cup job.transitioned \subseteq job.moved
    /\ ScheduleSkipped => job.moved = {} /\ job.assigned = {} /\ job.transitioned = {}
=============================================================================
